---- MODULE Spec2Model ----
(***************************************************************************)
(* Content and image migration pipeline of api.labcat.nz.                  *)
(*                                                                         *)
(* The row store holds one table per content type; a migration run is      *)
(* driven by one of the programs of the repository (the engine):           *)
(*   "all"       migrateAllContent          (sequential, five types)       *)
(*   "poc"       migrateAudioProjects       (sequential, worker route)     *)
(*   "local"     scripts/migrate-audio-projects.ts (sql.js, --db file)     *)
(*   "bulk"      scripts/migrate-content.ts (wrangler, five types)         *)
(*   "bulkAudio" audio-only wrangler script                                *)
(* Field values are abstract tokens (small integers); timestamps keep the  *)
(* format that produced them (ISO string of the remote API, or SQLite      *)
(* CURRENT_TIMESTAMP).                                                     *)
(***************************************************************************)
EXTENDS Integers, Sequences, FiniteSets, TLC

VARIABLES
  engine,    \* the program driving the runs of this behaviour
  env,       \* "single": only audio-projects has remote content; "multi": all
  pc,        \* position of the current run
  ti,        \* index of the current entry of the engine's content-type list
  sets,      \* content sets fetched so far in this run
  idx,       \* rows of the current set already handled by the loop
  inserted,  \* counter of the current set
  updated,   \* counter of the current set
  reports,   \* summaries / reports pushed so far in this run
  stmts,     \* sqlStatements of the bulk scripts
  store,     \* persistent row store: table name -> sequence of rows (id = index)
  mem,       \* sql.js in-memory database of the local script
  now,       \* logical clock read by CURRENT_TIMESTAMP
  budget,    \* remote rows still available to fetch (bounds the model)
  output,    \* what the run printed / returned
  exitCode,  \* process exit code (1 on caught failure)
  failedAt,  \* operation that made the run fail
  calls,     \* kinds of storage calls issued by the current run
  wlog,      \* writes applied to the store by the current run, in order
  prev,      \* outcome of the previous run when the current one repeats its batch
  \* image migration script
  ipc,           \* position of the image-migration run
  config,        \* file configuration and process environment of the run
  sources,       \* resolved migration sources
  si,            \* index of the current source
  imageUrls,     \* unique image URLs of the current source
  ii,            \* index of the current image URL
  downloadCache, \* run-scoped cache: URL -> downloaded bytes
  uploadedKeys,  \* run-scoped set of keys already put
  results,       \* mapping records pushed so far
  bucket,        \* object storage: key -> bytes
  downloads,     \* URLs handed to downloadImage by the current run, in order
  puts,          \* keys handed to uploadToR2 by the current run, in order
  refs,          \* image references still available to fetch (bounds the model)
  ifailedAt,     \* operation that made the image run fail
  ierror,        \* field named by the configuration error, "" when none
  fetches,       \* endpoints handed to fetchContent by the current run, in order
  queue,         \* (source, image URL) pairs collected by the current run, in order
  \* content normaliser
  npc,                \* "raw" before and "normalized" after the normaliser ran
  folder,             \* r2Folder of the content type being fetched
  rawProjects,        \* records of the remote response
  normalizedProjects, \* their normalised form
  imageMappings,      \* source/target pairs of createImageMappings
  \* migration route
  expectedToken,  \* LABCAT_MIGRATION_TOKEN of the deployment, "" when not set
  token,          \* x-labcat-migration-token of the last request, "" when absent
  status,         \* 401 when the last request was refused, 0 otherwise
  \* concurrent invocations of the migration route
  runs,           \* per request: position, batch, cursor, lookup result, counters
  \* existence lookup of the bulk scripts
  kpc,            \* position inside fetchExistingSlugs
  batchSlugs,     \* its slugs argument
  uniqueSlugs,    \* the de-duplicated list
  chunkIndex,     \* loop index
  existingSlugs,  \* the set being built
  queries,        \* slug lists of the queries issued so far
  present         \* slugs of the rows of the table

uvars == <<engine, env, pc, ti, sets, idx, inserted, updated, reports, stmts,
           store, mem, now, budget, output, exitCode, failedAt, calls, wlog, prev>>

ivars == <<ipc, config, sources, si, imageUrls, ii, downloadCache, uploadedKeys,
           results, bucket, downloads, puts, refs, ifailedAt, ierror, fetches, queue>>

nvars == <<npc, folder, rawProjects, normalizedProjects, imageMappings>>

rvars == <<expectedToken, token, status>>

cvars == <<runs>>

kvars == <<kpc, batchSlugs, uniqueSlugs, chunkIndex, existingSlugs, queries, present>>

xvars == <<rvars, cvars, kvars>>

vars == <<uvars, ivars, nvars, xvars>>

----------------------------------------------------------------------------
(* Bounds *)

MaxBatch == 2     \* rows returned by one remote fetch
MaxClock == 2     \* runs started in one behaviour (the clock ticks per run)
MaxRows  == 3     \* rows fetched in one behaviour of the multi-type model
MaxRefs  == 3     \* image references fetched in one behaviour of the image model
MaxEntries == 2  \* records returned by one fetch of the image script
MaxLoad == 5      \* records plus image references of one response to normalise
MaxTokens == 3    \* pieces a rendered title is made of

Slugs == {"a", "b"}
Vers  == {1, 2}   \* versions of a record: every field value differs

Null == 0

----------------------------------------------------------------------------
(* Content-type configuration *)

\* seeded fault: animations listed before building-blocks
CONTENT_CONFIGS_swapped ==
  << [type |-> "pages",           tableName |-> "pages",           extraColumns |-> {"reactComponent"}],
     [type |-> "animations",      tableName |-> "animations",      extraColumns |-> {"animationLink"}],
     [type |-> "building-blocks", tableName |-> "building_blocks", extraColumns |-> {}],
     [type |-> "creative-coding", tableName |-> "creative_coding", extraColumns |-> {"content"}],
     [type |-> "audio-projects",  tableName |-> "audio_projects",  extraColumns |-> {"content"}] >>

CONTENT_CONFIGS ==
  << [type |-> "pages",           tableName |-> "pages",           extraColumns |-> {"reactComponent"}],
     [type |-> "building-blocks", tableName |-> "building_blocks", extraColumns |-> {}],
     [type |-> "animations",      tableName |-> "animations",      extraColumns |-> {"animationLink"}],
     [type |-> "creative-coding", tableName |-> "creative_coding", extraColumns |-> {"content"}],
     [type |-> "audio-projects",  tableName |-> "audio_projects",  extraColumns |-> {"content"}] >>

Tables == {CONTENT_CONFIGS[i].tableName : i \in DOMAIN CONTENT_CONFIGS}

AudioConfig == CONTENT_CONFIGS[5]

\* seeded fault: every engine handles audio-projects only
ConfigsOf_audioOnly(e) == <<AudioConfig>>

\* configurations an engine iterates over, in order
ConfigsOf(e) ==
  IF e \in {"all", "bulk"} THEN CONTENT_CONFIGS ELSE <<AudioConfig>>

SequentialEngines == {"all", "poc", "local"}
BulkEngines == {"bulk", "bulkAudio"}
Engines == SequentialEngines \cup BulkEngines

----------------------------------------------------------------------------
(* Rows *)

Iso(t) == [fmt |-> "iso", t |-> t]      \* date_gmt / modified_gmt of the remote
CurrentTimestamp(t) == [fmt |-> "sql", t |-> t]

ImagesOf(v) == IF v = 1 THEN <<>> ELSE <<v>>   \* <<>> stands for null

\* normalized row of version v for slug s under configuration cfg
Project(cfg, s, v) ==
  [slug |-> s, status |-> v, type |-> v, title |-> v,
   featuredImage |-> v, featuredImages |-> ImagesOf(v),
   created |-> Iso(v), modified |-> Iso(v),
   extra |-> IF cfg.extraColumns = {} THEN Null ELSE v]

\* featuredImages is a JSON-array-valued text column
JsonText(images) ==
  IF images = <<>> THEN [isNull |-> TRUE, json |-> <<>>]
  ELSE [isNull |-> FALSE, json |-> images]

BaseColumns == {"slug", "status", "type", "title", "featuredImage",
                "featuredImages", "created", "modified"}

ColumnValue(col, project) ==
  IF col = "featuredImages" THEN JsonText(project.featuredImages)
  ELSE project[col]

SlugsOf(rows) == {rows[i].slug : i \in DOMAIN rows}

\* seeded fault: the lookup never finds the row
SelectBySlug_blind(tbl, s) == <<>>

\* select id from table where slug = s limit 1
SelectBySlug(tbl, s) ==
  LET ids == {i \in DOMAIN tbl : tbl[i].slug = s}
  IN IF ids = {} THEN <<>> ELSE <<CHOOSE i \in ids : \A j \in ids : i <= j>>

AllColumns == BaseColumns \cup {"extra"}

\* insert into table (cols) values (...): AUTOINCREMENT id, column defaults
\* for the columns left out, no trigger on insert
InsertRow(tbl, project, cols, t) ==
  Append(tbl, [c \in AllColumns \cup {"id"} |->
                 IF c = "id" THEN Len(tbl) + 1
                 ELSE IF c \in cols THEN ColumnValue(c, project)
                 ELSE IF c \in {"created", "modified"} THEN CurrentTimestamp(t)
                 ELSE Null])

\* AFTER UPDATE trigger <table>_set_modified
SetModifiedTrigger(row, t) == [row EXCEPT !.modified = CurrentTimestamp(t)]

\* update table set <payload> where id = i; the trigger fires afterwards
UpdateRow(tbl, i, payload, t) ==
  [tbl EXCEPT ![i] =
     SetModifiedTrigger(
       [c \in DOMAIN tbl[i] |->
          IF c \in payload.cols THEN ColumnValue(c, payload.project) ELSE tbl[i][c]],
       t)]

MutableColumns == {"status", "type", "title", "featuredImage", "featuredImages", "modified"}

\* seeded fault: the update payload also overwrites created
buildUpdatePayload_withCreated(project, extraColumns) ==
  [cols |-> MutableColumns \cup {"created"} \cup (IF extraColumns = {} THEN {} ELSE {"extra"}),
   project |-> project]

\* seeded fault: the update payload leaves title out
buildUpdatePayload_noTitle(project, extraColumns) ==
  [cols |-> (MutableColumns \ {"title"}) \cup (IF extraColumns = {} THEN {} ELSE {"extra"}),
   project |-> project]

\* buildUpdatePayload of the content library
buildUpdatePayload(project, extraColumns) ==
  [cols |-> MutableColumns \cup (IF extraColumns = {} THEN {} ELSE {"extra"}),
   project |-> project]

\* inline .set({...}) of migrateAudioProjects
AudioUpdatePayload(project) ==
  [cols |-> MutableColumns \cup {"extra"}, project |-> project]

\* inline .set({...}) of the local script: no modified
LocalUpdatePayload(project) ==
  [cols |-> (MutableColumns \ {"modified"}) \cup {"extra"}, project |-> project]

PayloadOf(e, project, cfg) ==
  IF e = "all" THEN buildUpdatePayload(project, cfg.extraColumns)
  ELSE IF e = "poc" THEN AudioUpdatePayload(project)
  ELSE LocalUpdatePayload(project)

ExtraOf(extraColumns) == IF extraColumns = {} THEN {} ELSE {"extra"}

\* INSERT INTO <table> (...) VALUES (...) ON CONFLICT(slug) DO UPDATE SET ...
\* of the multi-type script; type and pos record where the row came from
buildUpsertStatement(set, pos) ==
  [tableName |-> set.tableName, project |-> set.rows[pos],
   insertCols |-> BaseColumns \cup ExtraOf(set.extraColumns),
   updateCols |-> MutableColumns \cup ExtraOf(set.extraColumns),
   type |-> set.type, pos |-> pos]

\* the statement of the audio-only script
AudioUpsertStatement(set, pos) ==
  [tableName |-> "audio_projects", project |-> set.rows[pos],
   insertCols |-> BaseColumns \cup {"extra"},
   updateCols |-> MutableColumns \cup {"extra"},
   type |-> set.type, pos |-> pos]

\* SQLite executing one upsert statement on its table
ExecStatement(tbl, stmt, t) ==
  LET existing == SelectBySlug(tbl, stmt.project.slug)
  IN IF existing # <<>>
     THEN UpdateRow(tbl, existing[1], [cols |-> stmt.updateCols, project |-> stmt.project], t)
     ELSE InsertRow(tbl, stmt.project, stmt.insertCols, t)

\* the store after the first k statements of the file
RECURSIVE ExecStatements(_, _, _, _)
ExecStatements(db, ss, k, t) ==
  IF k = 0 THEN db
  ELSE LET before == ExecStatements(db, ss, k - 1, t)
           st == ss[k]
       IN [before EXCEPT ![st.tableName] = ExecStatement(before[st.tableName], st, t)]

\* positions of the rows that survive the seen-set of prepareSqlForContentSet
FirstOccurrences(rows) ==
  {i \in DOMAIN rows : \A j \in 1..(i - 1) : rows[j].slug # rows[i].slug}

\* ascending enumeration of a finite set of naturals
RECURSIVE SortedSeq(_)
SortedSeq(S) ==
  IF S = {} THEN <<>>
  ELSE LET m == CHOOSE x \in S : \A y \in S : x <= y
       IN <<m>> \o SortedSeq(S \ {m})

\* SELECT slug FROM <table> WHERE slug IN (...): the slugs that exist
fetchExistingSlugs(tbl, slugs) == {s \in slugs : SelectBySlug(tbl, s) # <<>>}

\* seeded fault: the existence query is issued for an empty slug list too
ExistenceQueries_noGuard(slugs) == {"existsQuery"}

\* storage calls of fetchExistingSlugs: none for an empty slug list
ExistenceQueries(slugs) == IF slugs = {} THEN {} ELSE {"existsQuery"}

\* upsertContent(db, table, projects, extraColumns) run to completion on tbl:
\* the table and the counters after the first k rows
RECURSIVE upsertContent(_, _, _, _, _)
upsertContent(tbl, rows, cfg, k, t) ==
  IF k = 0 THEN [table |-> tbl, inserted |-> 0, updated |-> 0]
  ELSE LET before == upsertContent(tbl, rows, cfg, k - 1, t)
           project == rows[k]
           existing == SelectBySlug(before.table, project.slug)
       IN IF existing # <<>>
          THEN [table |-> UpdateRow(before.table, existing[1],
                                    buildUpdatePayload(project, cfg.extraColumns), t),
                inserted |-> before.inserted, updated |-> before.updated + 1]
          ELSE [table |-> InsertRow(before.table, project, AllColumns, t),
                inserted |-> before.inserted + 1, updated |-> before.updated]

\* prepareSqlForContentSet on one set followed by executeSqlFile on its
\* statements, all of them applied
BulkUpsert(tbl, rows, cfg, t) ==
  LET set == [type |-> cfg.type, tableName |-> cfg.tableName,
              extraColumns |-> cfg.extraColumns, rows |-> rows]
      existing == fetchExistingSlugs(tbl, SlugsOf(rows))
      kept == FirstOccurrences(rows)
      order == SortedSeq(kept)
      ins == Cardinality({i \in kept : rows[i].slug \notin existing})
      ss == [k \in DOMAIN order |-> buildUpsertStatement(set, order[k])]
      db == ExecStatements([x \in {cfg.tableName} |-> tbl], ss, Len(ss), t)
  IN [table |-> db[cfg.tableName], inserted |-> ins, updated |-> Cardinality(kept) - ins]

----------------------------------------------------------------------------
(* Remote content API *)

SeqsUpTo(S, n) == UNION {[1..k -> S] : k \in 0..n}

Min(x, y) == IF x <= y THEN x ELSE y

\* normalized rows a fetch of cfg's endpoint can return in environment e
RowsOf(e, cfg, left) ==
  IF e = "single"
  THEN IF cfg.type = "audio-projects"
       THEN SeqsUpTo({Project(cfg, s, v) : s \in Slugs, v \in Vers}, MaxBatch)
       ELSE {<<>>}
  ELSE SeqsUpTo({Project(cfg, s, 1) : s \in Slugs}, Min(MaxBatch, left))

\* responses of the endpoint: non-success status, non-list payload, or a list
Responses(e, cfg, left) ==
  {[kind |-> "error", rows |-> <<>>], [kind |-> "notList", rows |-> <<>>]}
  \cup {[kind |-> "list", rows |-> r] : r \in RowsOf(e, cfg, left)}

----------------------------------------------------------------------------
(* Run state *)

Configs == ConfigsOf(engine)
Config == Configs[ti]
CurrentSet == sets[Len(sets)]
Table == IF engine = "local" THEN mem ELSE store[Config.tableName]

NoLast == [rows |-> <<>>, ins |-> 0, upd |-> 0, fresh |-> FALSE, ok |-> FALSE]
NoPrev == [rep |-> FALSE, fresh |-> FALSE, last |-> NoLast, after |-> <<>>]

Sum(f, key) ==
  LET RECURSIVE S(_)
      S(k) == IF k = 0 THEN 0 ELSE S(k - 1) + f[k][key]
  IN S(Len(f))

\* rows of the audio-projects set fetched by the current run, if any
AudioRows ==
  LET ks == {k \in DOMAIN sets : sets[k].type = "audio-projects"}
  IN IF ks = {} THEN <<>> ELSE sets[CHOOSE k \in ks : TRUE].rows

IsScript == engine \in {"local", "bulk", "bulkAudio"}

\* seeded fault: the failure is caught and what was gathered so far is
\* returned as the result
Fail_returnsPartial(where) ==
  /\ pc' = "failed"
  /\ failedAt' = where
  /\ output' = "summary"
  /\ exitCode' = exitCode

\* a thrown error reaches the top-level catch (scripts), the route's catch
\* (poc) or the caller (all): the run ends
Fail(where) ==
  /\ pc' = "failed"
  /\ failedAt' = where
  /\ output' = "error"
  /\ exitCode' = IF IsScript THEN 1 ELSE exitCode

----------------------------------------------------------------------------
(* Actions *)

\* a new invocation of the engine's program; the bulk scripts first check
\* that the wrangler CLI is available, the local script loads the db file
StartRun ==
  /\ pc \in {"idle", "done", "failed"}
  /\ now < MaxClock
  /\ now' = now + 1
  /\ ti' = 1 /\ sets' = <<>> /\ idx' = 0 /\ inserted' = 0 /\ updated' = 0
  /\ reports' = <<>> /\ stmts' = <<>> /\ calls' = {} /\ wlog' = <<>>
  /\ mem' = IF engine = "local" THEN store["audio_projects"] ELSE <<>>
  /\ prev' = IF env = "single"
             THEN [NoPrev EXCEPT !.last =
                     [rows |-> AudioRows, ins |-> Sum(reports, "inserted"),
                      upd |-> Sum(reports, "updated"), fresh |-> prev.fresh,
                      ok |-> pc = "done" /\ output = "summary"]]
             ELSE prev
  /\ \E available \in (IF engine \in BulkEngines THEN BOOLEAN ELSE {TRUE}) :
       IF available
       THEN pc' = "fetch" /\ output' = "none" /\ exitCode' = 0 /\ failedAt' = "none"
       ELSE Fail("wrangler")
  /\ UNCHANGED <<ivars, nvars, cvars, kvars>>
  /\ UNCHANGED <<engine, env, store, budget>>

\* an invocation that no token check stands before
Start == StartRun /\ UNCHANGED rvars

\* observer of the idempotence property: does this batch repeat the last one
Observe(rows) ==
  IF env = "single" /\ Config.type = "audio-projects"
  THEN LET f == SlugsOf(rows) \cap SlugsOf(Table) = {}
       IN IF prev.last.ok /\ rows = prev.last.rows
          THEN [rep |-> TRUE, fresh |-> f, last |-> prev.last, after |-> Table]
          ELSE [NoPrev EXCEPT !.fresh = f]
  ELSE prev

\* fetchNormalizedContent(config) / fetchNormalizedAudioProjects()
Fetch ==
  /\ pc = "fetch"
  /\ \E resp \in Responses(env, Config, budget) :
       IF resp.kind # "list"
       THEN /\ Fail("fetch")
            /\ UNCHANGED <<ti, sets, idx, inserted, updated, budget, prev>>
       ELSE /\ sets' = Append(sets, [type |-> Config.type, tableName |-> Config.tableName,
                                     extraColumns |-> Config.extraColumns,
                                     rows |-> resp.rows, sourceCount |-> Len(resp.rows)])
            /\ budget' = IF env = "multi" THEN budget - Len(resp.rows) ELSE budget
            /\ prev' = Observe(resp.rows)
            /\ idx' = 0 /\ inserted' = 0 /\ updated' = 0
            /\ IF engine \in SequentialEngines
               THEN pc' = "rows" /\ UNCHANGED <<ti, output, exitCode, failedAt>>
               ELSE IF ti < Len(Configs)
               THEN pc' = "fetch" /\ ti' = ti + 1 /\ UNCHANGED <<output, exitCode, failedAt>>
               ELSE IF engine = "bulkAudio" /\ resp.rows = <<>>
               THEN pc' = "done" /\ output' = "nothing" /\ UNCHANGED <<ti, exitCode, failedAt>>
               ELSE pc' = "prepare" /\ ti' = 1 /\ UNCHANGED <<output, exitCode, failedAt>>
  /\ UNCHANGED <<ivars, nvars, xvars>>
  /\ UNCHANGED <<engine, env, reports, stmts, store, mem, now, calls, wlog>>

WriteEntry(op, pos, set) == [type |-> set.type, pos |-> pos, slug |-> set.rows[pos].slug, op |-> op]

\* one iteration of the for-loop of upsertContent / migrateAudioProjects /
\* the local script: select by slug, then update by id or insert
UpsertRow ==
  /\ pc = "rows"
  /\ idx < Len(CurrentSet.rows)
  /\ LET project == CurrentSet.rows[idx + 1]
         existing == SelectBySlug(Table, project.slug)
         tbl == IF existing # <<>>
                THEN UpdateRow(Table, existing[1], PayloadOf(engine, project, Config), now)
                ELSE InsertRow(Table, project, AllColumns, now)
         op == IF existing # <<>> THEN "update" ELSE "insert"
     IN \E ok \in BOOLEAN :
          IF ok
          THEN /\ IF engine = "local"
                  THEN mem' = tbl /\ store' = store
                  ELSE store' = [store EXCEPT ![Config.tableName] = tbl] /\ mem' = mem
               /\ inserted' = IF op = "insert" THEN inserted + 1 ELSE inserted
               /\ updated' = IF op = "update" THEN updated + 1 ELSE updated
               /\ idx' = idx + 1
               /\ calls' = calls \cup {"select", op}
               /\ wlog' = Append(wlog, WriteEntry(op, idx + 1, CurrentSet))
               /\ UNCHANGED <<pc, output, exitCode, failedAt>>
          ELSE /\ Fail("row")
               /\ calls' = calls \cup {"select"}
               /\ UNCHANGED <<store, mem, inserted, updated, idx, wlog>>
  /\ UNCHANGED <<ivars, nvars, xvars>>
  /\ UNCHANGED <<engine, env, ti, sets, reports, stmts, now, budget, prev>>

\* the loop has ended: the summary is pushed and the next configuration is
\* fetched, or the run returns; the local script then exports the database
FinishSet ==
  /\ pc = "rows"
  /\ idx = Len(CurrentSet.rows)
  /\ reports' = Append(reports, [type |-> Config.type, sourceCount |-> CurrentSet.sourceCount,
                                 inserted |-> inserted, updated |-> updated])
  /\ IF ti < Len(Configs)
     THEN pc' = "fetch" /\ ti' = ti + 1 /\ UNCHANGED <<output, store>>
     ELSE /\ pc' = "done" /\ output' = "summary" /\ ti' = ti
          /\ store' = IF engine = "local"
                      THEN [store EXCEPT !["audio_projects"] = mem] ELSE store
  /\ UNCHANGED <<ivars, nvars, xvars>>
  /\ UNCHANGED <<engine, env, sets, idx, inserted, updated, stmts, mem, now, budget,
                 exitCode, failedAt, calls, wlog, prev>>

\* prepareSqlForContentSet(set, sqlStatements) of the multi-type script, or
\* the counting and statement building of the audio-only script
Prepare ==
  /\ pc = "prepare"
  /\ LET set == sets[ti]
         slugs == SlugsOf(set.rows)
         existing == fetchExistingSlugs(store[set.tableName], slugs)
         kept == IF engine = "bulk" THEN FirstOccurrences(set.rows) ELSE DOMAIN set.rows
         order == SortedSeq(kept)
         ins == Cardinality({i \in kept : set.rows[i].slug \notin existing})
         new == [k \in DOMAIN order |->
                   IF engine = "bulk" THEN buildUpsertStatement(set, order[k])
                   ELSE AudioUpsertStatement(set, order[k])]
     IN \E ok \in (IF ExistenceQueries(slugs) = {} THEN {TRUE} ELSE BOOLEAN) :
          IF ok
          THEN /\ calls' = calls \cup ExistenceQueries(slugs)
               /\ stmts' = stmts \o new
               /\ reports' = Append(reports, [type |-> set.type, sourceCount |-> set.sourceCount,
                                              inserted |-> ins,
                                              updated |-> Cardinality(kept) - ins])
               /\ IF ti < Len(sets)
                  THEN pc' = "prepare" /\ ti' = ti + 1 /\ output' = output
                  ELSE IF stmts' = <<>>
                  THEN pc' = "done" /\ ti' = ti /\ output' = "nothing"
                  ELSE pc' = "exec" /\ ti' = ti /\ output' = output
               /\ UNCHANGED <<exitCode, failedAt>>
          ELSE /\ Fail("query")
               /\ calls' = calls \cup {"existsQuery"}
               /\ UNCHANGED <<stmts, reports, ti>>
  /\ UNCHANGED <<ivars, nvars, xvars>>
  /\ UNCHANGED <<engine, env, sets, idx, inserted, updated, store, mem, now, budget, wlog, prev>>

StatementWrites(ss, k) ==
  [i \in 1..k |-> [type |-> ss[i].type, pos |-> ss[i].pos, slug |-> ss[i].project.slug,
                   op |-> "upsert"]]

\* executeSqlFile: all statements in one wrangler invocation; when it fails
\* the tool may have applied any prefix of the file
ExecuteSqlFile ==
  /\ pc = "exec"
  /\ calls' = calls \cup {"execFile"}
  /\ \E k \in 0..Len(stmts) :
       /\ store' = ExecStatements(store, stmts, k, now)
       /\ wlog' = StatementWrites(stmts, k)
       /\ \/ /\ k = Len(stmts)
             /\ pc' = "done" /\ output' = "summary"
             /\ UNCHANGED <<exitCode, failedAt>>
          \/ /\ k < Len(stmts)
             /\ Fail("exec")
  /\ UNCHANGED <<ivars, nvars, xvars>>
  /\ UNCHANGED <<engine, env, ti, sets, idx, inserted, updated, reports, stmts, mem, now,
                 budget, prev>>

----------------------------------------------------------------------------
(* Image migration script *)

\* a URL is its host and the segments of its path; NoUrl stands for a null,
\* undefined or empty reference
NoUrl == [host |-> "null", segs |-> <<>>]

Urls ==
  { [host |-> "old", segs |-> <<"media", "x.png">>],
    [host |-> "old", segs |-> <<"other", "x.png">>],
    [host |-> "old", segs |-> <<"media", "a%20b.jpg">>],
    [host |-> "old", segs |-> <<"">>] }

\* decodeURIComponent on the file names of Urls
PercentDecode(seg) == IF seg = "a%20b.jpg" THEN "a b.jpg" ELSE seg

\* extractFilename: the last path segment, percent-decoded; "" when the
\* segment is empty (the script throws)
extractFilename(url) ==
  LET filename == url.segs[Len(url.segs)]
  IN IF filename = "" THEN "" ELSE PercentDecode(filename)

\* the bytes served at a URL
Body(url) == [from |-> url]

SOURCE_DEFINITIONS ==
  << [key |-> "audio-projects",  endpointDefault |-> "wp/v2/audio-projects",
      prefixDefault |-> <<"audio-projects">>],
     [key |-> "animations",      endpointDefault |-> "wp/v2/animations?per_page=99",
      prefixDefault |-> <<"animations">>],
     [key |-> "building-blocks", endpointDefault |-> "wp/v2/building-blocks?per_page=99",
      prefixDefault |-> <<"building-blocks">>],
     [key |-> "creative-coding", endpointDefault |-> "wp/v2/creative-coding",
      prefixDefault |-> <<"creative-coding">>],
     [key |-> "pages",           endpointDefault |-> "wp/v2/pages",
      prefixDefault |-> <<"pages">>] >>

SourceKeys == {SOURCE_DEFINITIONS[i].key : i \in DOMAIN SOURCE_DEFINITIONS}

RequiredCredentials ==
  <<"R2_ACCESS_KEY_ID", "R2_SECRET_ACCESS_KEY", "R2_ACCOUNT_ID", "R2_BUCKET_NAME">>

\* a string is a sequence of tokens, "/" being a token of its own; <<>> is
\* the empty or missing string
normalisePrefix(prefix) ==
  LET a == IF prefix # <<>> /\ Head(prefix) = "/" THEN Tail(prefix) ELSE prefix
  IN IF a # <<>> /\ a[Len(a)] = "/" THEN SubSeq(a, 1, Len(a) - 1) ELSE a

\* ensurePrefix throws when the result is <<>>
ensurePrefix(prefix) == normalisePrefix(prefix)

\* seeded fault: the last non-empty candidate wins
pickFirstNonEmpty_last(values) ==
  LET ks == {k \in DOMAIN values : values[k] # <<>>}
  IN IF ks = {} THEN <<>> ELSE values[CHOOSE k \in ks : \A j \in ks : k >= j]

pickFirstNonEmpty(values) ==
  LET ks == {k \in DOMAIN values : values[k] # <<>>}
  IN IF ks = {} THEN <<>> ELSE values[CHOOSE k \in ks : \A j \in ks : k <= j]

NoOverrides == [k \in SourceKeys |-> <<>>]

resolveSources(cfg) ==
  IF cfg.sources # <<>>
  THEN [i \in DOMAIN cfg.sources |->
          [key |-> cfg.sources[i].key, endpoint |-> cfg.sources[i].endpoint,
           targetPrefix |-> ensurePrefix(cfg.sources[i].targetPrefix)]]
  ELSE [i \in DOMAIN SOURCE_DEFINITIONS |->
          LET def == SOURCE_DEFINITIONS[i]
          IN [key |-> def.key,
              endpoint |-> pickFirstNonEmpty(<<cfg.fileEndpoint[def.key], cfg.envEndpoint[def.key],
                                               <<def.endpointDefault>> >>)[1],
              targetPrefix |-> ensurePrefix(pickFirstNonEmpty(
                                 <<cfg.filePrefix[def.key], cfg.envPrefix[def.key],
                                   def.prefixDefault>>))]]

\* seeded fault: the credentials are not checked
MissingCredential_none(cfg) == ""

\* getValue over the required credentials: the first one that is missing or
\* empty in both the file and the environment, "" when none is
MissingCredential(cfg) ==
  LET ks == {k \in DOMAIN RequiredCredentials :
               RequiredCredentials[k] \notin cfg.fileCreds \cup cfg.envCreds}
  IN IF ks = {} THEN "" ELSE RequiredCredentials[CHOOSE k \in ks : \A j \in ks : k <= j]

AllCredentials == {RequiredCredentials[k] : k \in DOMAIN RequiredCredentials}

BaseConfig ==
  [fileCreds |-> AllCredentials, envCreds |-> {}, sources |-> <<>>,
   filePrefix |-> NoOverrides, envPrefix |-> NoOverrides,
   fileEndpoint |-> NoOverrides, envEndpoint |-> NoOverrides,
   publicBase |-> <<>>]

\* configurations a run can be started with
ConfigChoices ==
  { BaseConfig,
    [BaseConfig EXCEPT !.fileCreds = {}, !.envCreds = AllCredentials],
    [BaseConfig EXCEPT !.fileCreds = AllCredentials \ {"R2_ACCOUNT_ID"}],
    [BaseConfig EXCEPT !.publicBase = <<"https://cdn", "/">>],
    [BaseConfig EXCEPT !.filePrefix["pages"] = <<"/", "p", "/">>,
                       !.envPrefix["pages"] = <<"q">>,
                       !.envEndpoint["pages"] = <<"wp/v2/pages?per_page=99">>],
    [BaseConfig EXCEPT !.sources =
       << [key |-> "one", endpoint |-> "e1", targetPrefix |-> <<"shared", "/">>],
          [key |-> "two", endpoint |-> "e2", targetPrefix |-> <<"/", "shared">>] >>],
    [BaseConfig EXCEPT !.sources =
       << [key |-> "one", endpoint |-> "e1", targetPrefix |-> <<"/">>] >>],
    [BaseConfig EXCEPT !.sources =
       << [key |-> "pages", endpoint |-> "e1", targetPrefix |-> <<"own">>] >>,
                       !.filePrefix["pages"] = <<"p">>,
                       !.envEndpoint["pages"] = <<"wp/v2/pages?per_page=99">>] }

\* records a content endpoint can return to the image script
Entries ==
  {[featuredImage |-> u, featuredImages |-> <<>>] : u \in Urls \cup {NoUrl}}
  \cup {[featuredImage |-> NoUrl, featuredImages |-> <<u>>] : u \in Urls}
  \cup {[featuredImage |-> u, featuredImages |-> <<u>>] : u \in Urls}

RefCount(entry) ==
  (IF entry.featuredImage = NoUrl THEN 0 ELSE 1) + Len(entry.featuredImages)

RECURSIVE RefTotal(_)
RefTotal(entries) ==
  IF entries = <<>> THEN 0 ELSE RefCount(Head(entries)) + RefTotal(Tail(entries))

\* URL references of the entries in the order collectImageUrls visits them
RECURSIVE References(_)
References(entries) ==
  IF entries = <<>> THEN <<>>
  ELSE LET e == Head(entries)
       IN (IF e.featuredImage = NoUrl THEN <<>> ELSE <<e.featuredImage>>)
          \o SelectSeq(e.featuredImages, LAMBDA u : u # NoUrl)
          \o References(Tail(entries))

\* Array.from(new Set(...)): first occurrences in insertion order
RECURSIVE Unique(_)
Unique(seq) ==
  IF seq = <<>> THEN <<>>
  ELSE LET rest == Unique(SubSeq(seq, 1, Len(seq) - 1))
           last == seq[Len(seq)]
       IN IF \E k \in DOMAIN rest : rest[k] = last THEN rest ELSE Append(rest, last)

collectImageUrls(entries) == Unique(References(entries))

\* seeded fault: the cache is not consulted
NeedsDownload_always(cache, url) == TRUE

\* the download is skipped when the run's cache holds the URL
NeedsDownload(cache, url) == url \notin DOMAIN cache

\* seeded fault: the set of uploaded keys is not consulted
NeedsUpload_always(keys, key) == TRUE

\* the upload is skipped when the run already put the key
NeedsUpload(keys, key) == key \notin keys

TargetKey(source, filename) == source.targetPrefix \o <<"/", filename>>

\* seeded fault: the trailing slash of the public base is kept
R2Url_untrimmed(cfg, key) ==
  IF cfg.publicBase = <<>> THEN <<>> ELSE cfg.publicBase \o <<"/">> \o key

\* trimmedPublicBaseUrl joined with the key, <<>> without a public base
R2Url(cfg, key) ==
  IF cfg.publicBase = <<>> THEN <<>>
  ELSE (IF cfg.publicBase[Len(cfg.publicBase)] = "/"
        THEN SubSeq(cfg.publicBase, 1, Len(cfg.publicBase) - 1)
        ELSE cfg.publicBase) \o <<"/">> \o key

\* seeded fault: the error is swallowed and the loop goes on
IFail_continues(where) == ipc' = ipc /\ ifailedAt' = where

\* a thrown error leaves migrate(); main catches it
IFail(where) == ipc' = "failed" /\ ifailedAt' = where

\* migrate() up to its source loop: configuration, credentials, sources and
\* fresh run-scoped caches (one invocation of the script per behaviour)
ImgStart ==
  /\ ipc = "idle"
  /\ \E cfg \in ConfigChoices :
       /\ config' = cfg
       /\ ierror' = MissingCredential(cfg)
       /\ IF MissingCredential(cfg) # ""
          THEN IFail("config") /\ sources' = <<>>
          ELSE IF \E i \in DOMAIN resolveSources(cfg) : resolveSources(cfg)[i].targetPrefix = <<>>
          THEN IFail("prefix") /\ sources' = <<>>
          ELSE ipc' = "source" /\ ifailedAt' = "none" /\ sources' = resolveSources(cfg)
  /\ si' = 1 /\ imageUrls' = <<>> /\ ii' = 1
  /\ downloadCache' = <<>> /\ uploadedKeys' = {} /\ results' = <<>>
  /\ downloads' = <<>> /\ puts' = <<>> /\ fetches' = <<>> /\ queue' = <<>>
  /\ UNCHANGED <<bucket, refs>>
  /\ UNCHANGED <<uvars, nvars, xvars>>

\* fetchContent and collectImageUrls for the current source; a source without
\* images is skipped
ImgFetch ==
  /\ ipc = "source"
  /\ fetches' = Append(fetches, sources[si].endpoint)
  /\ \/ /\ IFail("fetch")
        /\ UNCHANGED <<imageUrls, ii, si, refs, queue>>
     \/ \E entries \in SeqsUpTo(Entries, MaxEntries) :
          /\ RefTotal(entries) <= refs
          /\ refs' = refs - RefTotal(entries)
          /\ imageUrls' = collectImageUrls(entries)
          /\ queue' = queue \o [k \in DOMAIN imageUrls' |->
                                  [source |-> sources[si], url |-> imageUrls'[k]]]
          /\ ii' = 1
          /\ ifailedAt' = ifailedAt
          /\ IF imageUrls' # <<>> THEN ipc' = "images" /\ si' = si
             ELSE IF si < Len(sources) THEN ipc' = "source" /\ si' = si + 1
             ELSE ipc' = "done" /\ si' = si
  /\ UNCHANGED <<config, sources, downloadCache, uploadedKeys, results, bucket, downloads,
                 puts, ierror>>
  /\ UNCHANGED <<uvars, nvars, xvars>>

\* one iteration of the image loop: file name, key, download unless cached,
\* upload unless the key was put, mapping record
ImgProcess ==
  /\ ipc = "images"
  /\ LET imageUrl == imageUrls[ii]
         source == sources[si]
         filename == extractFilename(imageUrl)
         key == TargetKey(source, filename)
         download == NeedsDownload(downloadCache, imageUrl)
         cache == IF download THEN (imageUrl :> Body(imageUrl)) @@ downloadCache
                  ELSE downloadCache
         upload == NeedsUpload(uploadedKeys, key)
     IN IF filename = ""
        THEN /\ IFail("filename")
             /\ UNCHANGED <<downloadCache, downloads, uploadedKeys, puts, bucket, results, ii, si>>
        ELSE \E downloaded \in (IF download THEN BOOLEAN ELSE {TRUE}),
                uploaded \in (IF upload THEN BOOLEAN ELSE {TRUE}) :
               /\ downloads' = IF download THEN Append(downloads, imageUrl) ELSE downloads
               /\ IF ~downloaded
                  THEN /\ IFail("download")
                       /\ UNCHANGED <<downloadCache, uploadedKeys, puts, bucket, results, ii, si>>
                  ELSE /\ downloadCache' = cache
                       /\ puts' = IF upload THEN Append(puts, key) ELSE puts
                       /\ IF ~uploaded
                          THEN /\ IFail("upload")
                               /\ UNCHANGED <<uploadedKeys, bucket, results, ii, si>>
                          ELSE /\ uploadedKeys' = uploadedKeys \cup {key}
                               /\ bucket' = IF upload THEN (key :> cache[imageUrl]) @@ bucket
                                            ELSE bucket
                               /\ results' = Append(results,
                                    [source |-> source.key, sourceUrl |-> imageUrl,
                                     targetKey |-> key, r2Url |-> R2Url(config, key)])
                               /\ ifailedAt' = ifailedAt
                               /\ IF ii < Len(imageUrls)
                                  THEN ipc' = "images" /\ ii' = ii + 1 /\ si' = si
                                  ELSE IF si < Len(sources)
                                  THEN ipc' = "source" /\ ii' = ii /\ si' = si + 1
                                  ELSE ipc' = "done" /\ ii' = ii /\ si' = si
  /\ UNCHANGED <<config, sources, imageUrls, refs, ierror, fetches, queue>>
  /\ UNCHANGED <<uvars, nvars, xvars>>

----------------------------------------------------------------------------
(* Content normaliser: URL rewriting, image mappings *)

\* a URL string is a sequence of tokens: its origin, then "/", "?" and the
\* names between them; NullValue is null or undefined, <<>> the empty string
NullValue == <<"null">>

R2_BASE_URL == <<"https://images.labcat.nz">>

Origins == {"https://old", "https://images.labcat.nz"}

\* image references a remote record can carry
RawUrls ==
  { <<"https://old", "/", "media", "/", "x.png">>,
    <<"https://old", "/", "media", "/", "a%20b.jpg">>,
    <<"https://old", "/", "media", "/", "x.png", "?", "v=1">>,
    <<"https://old", "/", "media", "/">>,
    <<"media", "/", "x.png">>,
    <<"https://images.labcat.nz", "/", "pages", "/", "x.png">>,
    <<"https://images.labcat.nz", "/", "audio-projects", "/", "sub", "/", "x.png">>,
    <<"https://images.labcat.nz", "/", "audio-projects", "/", "sub", "/">> }

\* gallery entries a remote record can carry
GalleryUrls ==
  { <<"https://old", "/", "media", "/", "y.png">>,
    <<"https://old", "/", "media", "/">>,
    <<>> }

NullArray == [isNull |-> TRUE, items |-> <<>>]

ArrayOf(items) == [isNull |-> FALSE, items |-> items]

\* String.prototype.startsWith
StartsWith(str, prefix) ==
  Len(str) >= Len(prefix) /\ SubSeq(str, 1, Len(prefix)) = prefix

\* a value that is null, undefined or ""
Falsy(value) == value = NullValue \/ value = <<>>

\* new URL(value) throws unless the string begins with an origin
ParsesAsUrl(value) == value # <<>> /\ Head(value) \in Origins

\* URL.pathname: what follows the origin, up to the query
Pathname(value) ==
  LET rest == Tail(value)
      qs == {k \in DOMAIN rest : rest[k] = "?"}
      path == IF qs = {} THEN rest
              ELSE SubSeq(rest, 1, (CHOOSE k \in qs : \A j \in qs : k <= j) - 1)
  IN IF path = <<>> THEN <<"/">> ELSE path

\* pathname.split('/').pop(): "" when the path ends with a slash
LastSegment(path) == IF path[Len(path)] = "/" THEN "" ELSE path[Len(path)]

\* seeded fault: a URL already under the target folder is rewritten like others
convertImageUrl_noShortcut(value, fld) ==
  IF Falsy(value) THEN NullValue
  ELSE IF ~ParsesAsUrl(value) THEN NullValue
  ELSE IF LastSegment(Pathname(value)) = "" THEN NullValue
  ELSE R2_BASE_URL \o <<"/", fld, "/", LastSegment(Pathname(value))>>

convertImageUrl(value, fld) ==
  IF Falsy(value) THEN NullValue
  ELSE IF StartsWith(value, R2_BASE_URL \o <<"/", fld, "/">>) THEN value
  ELSE IF ~ParsesAsUrl(value) THEN NullValue
  ELSE IF LastSegment(Pathname(value)) = "" THEN NullValue
  ELSE R2_BASE_URL \o <<"/", fld, "/", LastSegment(Pathname(value))>>

\* seeded fault: an array whose entries all fail to rewrite is returned empty
convertImageArray_keepsEmpty(values, fld) ==
  IF values.isNull \/ values.items = <<>> THEN NullArray
  ELSE ArrayOf(SelectSeq([k \in DOMAIN values.items |-> convertImageUrl(values.items[k], fld)],
                         LAMBDA v : ~Falsy(v)))

convertImageArray(values, fld) ==
  IF values.isNull \/ values.items = <<>> THEN NullArray
  ELSE LET converted ==
             SelectSeq([k \in DOMAIN values.items |-> convertImageUrl(values.items[k], fld)],
                       LAMBDA v : ~Falsy(v))
       IN IF converted # <<>> THEN ArrayOf(converted) ELSE NullArray

\* a ?? b ?? ...: the first value that is neither null nor undefined
RECURSIVE Coalesce(_)
Coalesce(values) ==
  IF values = <<>> THEN NullValue
  ELSE IF Head(values) # NullValue THEN Head(values)
  ELSE Coalesce(Tail(values))

\* the same chain over list-valued fields
RECURSIVE CoalesceArray(_)
CoalesceArray(values) ==
  IF values = <<>> THEN NullArray
  ELSE IF ~Head(values).isNull THEN Head(values)
  ELSE CoalesceArray(Tail(values))

\* the candidate when it is a non-empty string, null otherwise
extractFeaturedImage(project) ==
  LET candidate == Coalesce(<<project.featuredImage, project.featured_image,
                              project.featured_media_url>>)
  IN IF Falsy(candidate) THEN NullValue ELSE candidate

\* null for a missing or empty list, else its non-empty strings
extractFeaturedImages(project) ==
  LET candidate == CoalesceArray(<<project.featuredImages, project.featured_images,
                                   project.gallery_images>>)
  IN IF candidate.isNull \/ candidate.items = <<>> THEN NullArray
     ELSE ArrayOf(SelectSeq(candidate.items, LAMBDA v : ~Falsy(v)))

\* seeded fault: the gallery is left out of the mappings
ProjectMappings_noGallery(sourceProject, project) ==
  LET originalFeatured == extractFeaturedImage(sourceProject)
  IN IF ~Falsy(project.featuredImage) /\ ~Falsy(originalFeatured)
     THEN <<[source |-> originalFeatured, target |-> project.featuredImage]>>
     ELSE <<>>

\* body of the forEach callback of createImageMappings
ProjectMappings(sourceProject, project) ==
  LET originalFeatured == extractFeaturedImage(sourceProject)
      sourceImages == extractFeaturedImages(sourceProject)
      first == IF ~Falsy(project.featuredImage) /\ ~Falsy(originalFeatured)
               THEN <<[source |-> originalFeatured, target |-> project.featuredImage]>>
               ELSE <<>>
      n == IF project.featuredImages.isNull \/ sourceImages.isNull THEN 0
           ELSE Min(Len(sourceImages.items), Len(project.featuredImages.items))
      pairs == [k \in 1..n |-> [source |-> sourceImages.items[k],
                                target |-> project.featuredImages.items[k]]]
  IN first \o SelectSeq(pairs, LAMBDA m : ~Falsy(m.source) /\ ~Falsy(m.target))

\* mappings of the first n normalised projects; an index without a raw
\* counterpart contributes nothing
RECURSIVE MappingsUpTo(_, _, _)
MappingsUpTo(raw, normalized, n) ==
  IF n = 0 THEN <<>>
  ELSE MappingsUpTo(raw, normalized, n - 1)
       \o (IF n \in DOMAIN raw THEN ProjectMappings(raw[n], normalized[n]) ELSE <<>>)

createImageMappings(raw, normalized) == MappingsUpTo(raw, normalized, Len(normalized))

----------------------------------------------------------------------------
(* Content normaliser: titles.  A title is a sequence of UTF-16 code units. *)

\* pieces a rendered title is made of
TitleTokens ==
  { <<60, 98, 62>>,                                \* <b>
    <<60, 47, 98, 62>>,                            \* </b>
    <<60>>,                                        \* <
    <<62>>,                                        \* >
    <<70>>,                                        \* F
    <<32>>,                                        \* space
    <<38, 97, 109, 112, 59>>,                      \* &amp;
    <<38, 108, 116, 59>>,                          \* &lt;
    <<38, 103, 116, 59>>,                          \* &gt;
    <<38, 113, 117, 111, 116, 59>>,                \* &quot;
    <<38, 97, 112, 111, 115, 59>>,                 \* &apos;
    <<108, 116, 59>>,                              \* lt;
    <<38, 35, 51, 56, 59>>,                        \* &#38;
    <<38, 35, 120, 51, 67, 59>>,                   \* &#x3C;
    <<38, 35, 49, 50, 56, 53, 49, 50, 59>> }       \* &#128512;

RECURSIVE Concat(_)
Concat(pieces) == IF pieces = <<>> THEN <<>> ELSE Head(pieces) \o Concat(Tail(pieces))

\* position of the first c in str, 0 when there is none
IndexOf(str, c) ==
  LET ks == {k \in DOMAIN str : str[k] = c}
  IN IF ks = {} THEN 0 ELSE CHOOSE k \in ks : \A j \in ks : k <= j

\* value.replace(/<[^>]*>/g, '')
RECURSIVE stripHtml(_)
stripHtml(value) ==
  IF value = <<>> THEN <<>>
  ELSE IF Head(value) = 60 /\ IndexOf(value, 62) > 0
  THEN stripHtml(SubSeq(value, IndexOf(value, 62) + 1, Len(value)))
  ELSE <<Head(value)>> \o stripHtml(Tail(value))

\* replace(/pat/g, by) for a literal pattern
RECURSIVE ReplaceAll(_, _, _)
ReplaceAll(str, pat, by) ==
  IF str = <<>> THEN <<>>
  ELSE IF StartsWith(str, pat)
  THEN by \o ReplaceAll(SubSeq(str, Len(pat) + 1, Len(str)), pat, by)
  ELSE <<Head(str)>> \o ReplaceAll(Tail(str), pat, by)

DecimalDigits == 48..57

HexDigits == (48..57) \cup (65..70) \cup (97..102)

\* length of the longest prefix of str made of characters of set
RECURSIVE RunLength(_, _)
RunLength(str, set) ==
  IF str # <<>> /\ Head(str) \in set THEN 1 + RunLength(Tail(str), set) ELSE 0

DigitValue(c) == IF c \in 48..57 THEN c - 48 ELSE IF c \in 65..70 THEN c - 55 ELSE c - 87

\* Number(dec) and parseInt(hex, 16)
RECURSIVE ParseInt(_, _)
ParseInt(digits, radix) ==
  IF digits = <<>> THEN 0
  ELSE ParseInt(SubSeq(digits, 1, Len(digits) - 1), radix) * radix
       + DigitValue(digits[Len(digits)])

\* String.fromCharCode: one code unit, the number taken modulo 2^16
fromCharCode(n) == <<n % 65536>>

\* replace(/&#(\d+);/g, ...) and replace(/&#x([0-9a-fA-F]+);/g, ...): intro is
\* "&#" or "&#x"
RECURSIVE ReplaceReferences(_, _, _, _)
ReplaceReferences(str, intro, digits, radix) ==
  IF str = <<>> THEN <<>>
  ELSE LET rest == SubSeq(str, Len(intro) + 1, Len(str))
           n == RunLength(rest, digits)
       IN IF StartsWith(str, intro) /\ n > 0 /\ Len(rest) > n /\ rest[n + 1] = 59
          THEN fromCharCode(ParseInt(SubSeq(rest, 1, n), radix))
               \o ReplaceReferences(SubSeq(rest, n + 2, Len(rest)), intro, digits, radix)
          ELSE <<Head(str)>> \o ReplaceReferences(Tail(str), intro, digits, radix)

Whitespace == {9, 10, 11, 12, 13, 32, 160}

RECURSIVE TrimStart(_)
TrimStart(str) ==
  IF str # <<>> /\ Head(str) \in Whitespace THEN TrimStart(Tail(str)) ELSE str

RECURSIVE TrimEnd(_)
TrimEnd(str) ==
  IF str # <<>> /\ str[Len(str)] \in Whitespace
  THEN TrimEnd(SubSeq(str, 1, Len(str) - 1)) ELSE str

\* String.prototype.trim
Trim(str) == TrimEnd(TrimStart(str))

\* the chain of replace calls, then trim
decodeHtmlEntities(value) ==
  LET a == ReplaceReferences(value, <<38, 35>>, DecimalDigits, 10)
      b == ReplaceReferences(a, <<38, 35, 120>>, HexDigits, 16)
      c == ReplaceAll(b, <<38, 97, 109, 112, 59>>, <<38>>)
      d == ReplaceAll(c, <<38, 108, 116, 59>>, <<60>>)
      e == ReplaceAll(d, <<38, 103, 116, 59>>, <<62>>)
      f == ReplaceAll(e, <<38, 113, 117, 111, 116, 59>>, <<34>>)
      g == ReplaceAll(f, <<38, 97, 112, 111, 115, 59>>, <<39>>)
  IN Trim(g)

\* title and image fields of normalizeBase
normalizeBase(project, fld) ==
  [title |-> decodeHtmlEntities(stripHtml(project.title)),
   featuredImage |-> convertImageUrl(extractFeaturedImage(project), fld),
   featuredImages |-> convertImageArray(extractFeaturedImages(project), fld)]

\* content of a record: missing, or an object with a rendered text that may
\* itself be missing
NoContent == [isNull |-> TRUE, rendered |-> NullValue]

\* content?.rendered ?? null
extractRendered(content) == IF content.isNull THEN NullValue ELSE content.rendered

\* the value when it is a string with something besides white space
extractString(value) ==
  IF value = NullValue \/ (\A k \in DOMAIN value : value[k] = " ") THEN NullValue ELSE value

\* mapExtras of the configuration whose type (and r2Folder) is type, for the
\* types that have an extra column
mapExtras(type, project) ==
  IF type = "pages"
  THEN [reactComponent |->
          extractString(Coalesce(<<project.reactComponent, project.react_component>>))]
  ELSE IF type = "animations"
  THEN [animationLink |->
          Coalesce(<<extractString(project.animationLink),
                     extractString(project.animation_link),
                     extractString(project.animationURL)>>)]
  ELSE [content |-> extractRendered(project.content)]

\* { ...normalizeBase(project, r2Folder), ...mapExtras(project) }; mapExtras
\* of building-blocks returns an empty object
NormalizedContent(project, fld) ==
  IF fld = "building-blocks" THEN normalizeBase(project, fld)
  ELSE mapExtras(fld, project) @@ normalizeBase(project, fld)

\* a remote record with the given title and canonical image fields and
\* none of the legacy or type-specific fields
RawProject(t, image, images) ==
  [title |-> t,
   featuredImage |-> image, featured_image |-> NullValue, featured_media_url |-> NullValue,
   featuredImages |-> images, featured_images |-> NullArray, gallery_images |-> NullArray,
   reactComponent |-> NullValue, react_component |-> NullValue,
   animationLink |-> NullValue, animation_link |-> NullValue, animationURL |-> NullValue,
   content |-> NoContent]

\* galleries of exactly k entries; a record without entries may also have none
Galleries(k) ==
  {ArrayOf(g) : g \in [1..k -> GalleryUrls]} \cup (IF k = 0 THEN {NullArray} ELSE {})

\* raw records carrying exactly r image references, empty gallery entries
\* included
RawImageProjects(r) ==
  {RawProject(<<70>>, u, g) : u \in {NullValue, <<>>}, g \in Galleries(r)}
  \cup (IF r = 0 THEN {}
        ELSE {RawProject(<<70>>, u, g) : u \in RawUrls, g \in Galleries(r - 1)})

\* the response is prefix followed by records which, with their image
\* references, number at most left
RECURSIVE ImageResponse(_, _)
ImageResponse(prefix, left) ==
  \/ rawProjects = prefix
  \/ \E r \in 0..(left - 1) : \E p \in RawImageProjects(r) :
       ImageResponse(Append(prefix, p), left - r - 1)

\* responses of one record with a rendered title and no image
TitleResponses ==
  { <<RawProject(Concat(pieces), NullValue, NullArray)>> :
      pieces \in SeqsUpTo(TitleTokens, MaxTokens) }

\* one-record responses of a content type whose record spreads its values
\* over the canonical and the legacy field names
AliasRecords(type) ==
  LET LegacyUrl(name) == <<"https://old", "/", "media", "/", name>>
      Texts(c) == {NullValue, <<>>, <<" ">>, <<c>>}
      Plain == RawProject(<<70>>, NullValue, NullArray)
  IN
  { [RawProject(<<70>>, a, x) EXCEPT !.featured_image = b, !.featured_media_url = c,
                                     !.featured_images = y, !.gallery_images = z] :
      a \in {NullValue, <<>>, LegacyUrl("a.png")},
      b \in {NullValue, <<>>, LegacyUrl("b.png")},
      c \in {NullValue, LegacyUrl("c.png")},
      x \in {NullArray, ArrayOf(<<>>), ArrayOf(<<LegacyUrl("x.png")>>)},
      y \in {NullArray, ArrayOf(<<>>), ArrayOf(<<LegacyUrl("y.png")>>)},
      z \in {NullArray, ArrayOf(<<LegacyUrl("z.png")>>)} }
  \cup
  (IF type = "pages"
   THEN { [Plain EXCEPT !.reactComponent = a, !.react_component = b] :
            a \in Texts("C"), b \in {NullValue, <<"D">>} }
   ELSE IF type = "animations"
   THEN { [Plain EXCEPT !.animationLink = a, !.animation_link = b, !.animationURL = c] :
            a \in Texts("L"), b \in {NullValue, <<>>, <<"M">>}, c \in {NullValue, <<"N">>} }
   ELSE IF type \in {"creative-coding", "audio-projects"}
   THEN { [Plain EXCEPT !.content = a] :
            a \in {NoContent} \cup {[isNull |-> FALSE, rendered |-> r] : r \in Texts("C")} }
   ELSE {})

\* rawProjects.map(...) and createImageMappings of fetchNormalizedContent
Normalize ==
  /\ npc = "raw"
  /\ npc' = "normalized"
  /\ normalizedProjects' = [k \in DOMAIN rawProjects |-> NormalizedContent(rawProjects[k], folder)]
  /\ imageMappings' = createImageMappings(rawProjects, normalizedProjects')
  /\ UNCHANGED <<folder, rawProjects>>
  /\ UNCHANGED <<uvars, ivars, xvars>>

----------------------------------------------------------------------------
(* Migration route: POST /admin/migrate/audio-projects/poc *)

NoToken == ""

\* seeded fault: a request without the header is let through
Unauthorized_absentPasses(expected, given) ==
  expected # NoToken /\ given # NoToken /\ given # expected

\* expectedToken && token !== expectedToken
Unauthorized(expected, given) == expected # NoToken /\ given # expected

\* the route handler up to the call of migrateAudioProjects: a refused
\* request is answered at once, any other starts a run
Post ==
  /\ pc \in {"idle", "done", "failed"}
  /\ \E given \in {NoToken, "secret", "wrong"} :
       /\ token' = given
       /\ IF Unauthorized(expectedToken, given)
          THEN /\ status' = 401
               /\ UNCHANGED <<uvars, ivars, nvars, cvars, kvars>>
          ELSE /\ status' = 0
               /\ StartRun
  /\ expectedToken' = expectedToken

\* HTTP status of the response to the last request, 0 while it is handled
ResponseStatus ==
  IF status = 401 THEN 401
  ELSE IF pc = "done" THEN 200
  ELSE IF pc = "failed" THEN 500
  ELSE 0

----------------------------------------------------------------------------
(* Concurrent invocations of migrateAudioProjects *)

\* requests handled at the same time
Requests == {"r1", "r2"}

MaxRace == 2    \* rows of the batch of one concurrent request

NoRun == [pc |-> "idle", rows |-> <<>>, idx |-> 0, existing |-> <<>>,
          inserted |-> 0, updated |-> 0, failedAt |-> "none"]

RaceTable == store["audio_projects"]

\* seeded fault: the table has no unique index on slug
UniqueViolation_none(tbl, project) == FALSE

\* uniqueIndex('audio_projects_slug_unique').on(t.slug)
UniqueViolation(tbl, project) == project.slug \in SlugsOf(tbl)

\* fetchNormalizedAudioProjects of request r
RaceFetch(r) ==
  /\ runs[r].pc = "idle"
  /\ \E resp \in {[kind |-> "error", rows |-> <<>>]}
                 \cup {[kind |-> "list", rows |-> b] :
                         b \in SeqsUpTo({Project(AudioConfig, x, 1) : x \in Slugs}, MaxRace)} :
       runs' = [runs EXCEPT ![r] =
                  IF resp.kind # "list"
                  THEN [@ EXCEPT !.pc = "failed", !.failedAt = "fetch"]
                  ELSE [@ EXCEPT !.rows = resp.rows,
                                 !.pc = IF resp.rows = <<>> THEN "done" ELSE "select"]]
  /\ UNCHANGED <<uvars, ivars, nvars, rvars, kvars>>

\* the select of one loop iteration of request r
RaceSelect(r) ==
  /\ runs[r].pc = "select"
  /\ LET project == runs[r].rows[runs[r].idx + 1]
     IN runs' = [runs EXCEPT ![r] =
                   [@ EXCEPT !.existing = SelectBySlug(RaceTable, project.slug),
                             !.pc = "write"]]
  /\ UNCHANGED <<uvars, ivars, nvars, rvars, kvars>>

\* the update or insert of that iteration, issued on what the select
\* returned; an insert of a slug the table holds by now violates the index
RaceWrite(r) ==
  /\ runs[r].pc = "write"
  /\ LET run == runs[r]
         project == run.rows[run.idx + 1]
         after == IF run.idx + 1 = Len(run.rows) THEN "done" ELSE "select"
     IN IF run.existing # <<>>
        THEN /\ store' = [store EXCEPT !["audio_projects"] =
                            UpdateRow(RaceTable, run.existing[1], AudioUpdatePayload(project), now)]
             /\ runs' = [runs EXCEPT ![r] =
                           [@ EXCEPT !.updated = @ + 1, !.idx = @ + 1, !.pc = after]]
        ELSE IF UniqueViolation(RaceTable, project)
        THEN /\ runs' = [runs EXCEPT ![r] = [@ EXCEPT !.pc = "failed", !.failedAt = "unique"]]
             /\ store' = store
        ELSE /\ store' = [store EXCEPT !["audio_projects"] =
                            InsertRow(RaceTable, project, AllColumns, now)]
             /\ runs' = [runs EXCEPT ![r] =
                           [@ EXCEPT !.inserted = @ + 1, !.idx = @ + 1, !.pc = after]]
  /\ UNCHANGED <<engine, env, pc, ti, sets, idx, inserted, updated, reports, stmts,
                 mem, now, budget, output, exitCode, failedAt, calls, wlog, prev>>
  /\ UNCHANGED <<ivars, nvars, rvars, kvars>>

----------------------------------------------------------------------------
(* fetchExistingSlugs, chunk by chunk *)

chunkSize == 100

MaxSlugs == 201   \* slugs handed to one existence lookup

\* seeded fault: each slice takes one slug more
ChunkOf_overlap(list, index) ==
  SubSeq(list, index + 1, Min(index + chunkSize + 1, Len(list)))

\* uniqueSlugs.slice(index, index + chunkSize)
ChunkOf(list, index) == SubSeq(list, index + 1, Min(index + chunkSize, Len(list)))

\* Array.from(new Set(slugs)): the first occurrences, in order
UniqueOf(list) ==
  LET firsts == SelectSeq([i \in DOMAIN list |-> i],
                          LAMBDA i : \A j \in 1..(i - 1) : list[j] # list[i])
  IN [k \in DOMAIN firsts |-> list[firsts[k]]]

\* lengths around the multiples of the chunk size, and the longest list
BatchLengths ==
  {n \in 0..MaxSlugs : n % chunkSize \in {0, 1, chunkSize - 1} \/ n = MaxSlugs}

\* slug lists of n entries: pairwise distinct, the last repeating the first,
\* or every slug twice in a row (slugs are numbered)
BatchSlugLists(n) ==
  { [i \in 1..n |-> i],
    [i \in 1..n |-> IF i = n /\ n > 1 THEN 1 ELSE i],
    [i \in 1..n |-> (i + 1) \div 2] }

\* contents of the table: every m-th slug has a row
TableContents == {{x \in 1..MaxSlugs : m # 0 /\ x % m = 0} : m \in 0..3}

\* the early return, or the de-duplication before the loop
ChunkStart ==
  /\ kpc = "start"
  /\ IF Len(batchSlugs) = 0
     THEN kpc' = "done" /\ uniqueSlugs' = uniqueSlugs
     ELSE kpc' = "loop" /\ uniqueSlugs' = UniqueOf(batchSlugs)
  /\ UNCHANGED <<batchSlugs, chunkIndex, existingSlugs, queries, present>>
  /\ UNCHANGED <<uvars, ivars, nvars, rvars, cvars>>

\* one iteration of the loop: the query for one chunk and the handling of
\* its rows; the query can fail
QueryChunk ==
  /\ kpc = "loop"
  /\ chunkIndex < Len(uniqueSlugs)
  /\ LET chunk == ChunkOf(uniqueSlugs, chunkIndex)
         rows == {chunk[k] : k \in DOMAIN chunk} \cap present
     IN /\ queries' = Append(queries, chunk)
        /\ \E ok \in BOOLEAN :
             IF ok
             THEN /\ existingSlugs' = existingSlugs \cup rows
                  /\ chunkIndex' = chunkIndex + chunkSize
                  /\ kpc' = kpc
             ELSE /\ kpc' = "failed"
                  /\ UNCHANGED <<existingSlugs, chunkIndex>>
  /\ UNCHANGED <<batchSlugs, uniqueSlugs, present>>
  /\ UNCHANGED <<uvars, ivars, nvars, rvars, cvars>>

\* the loop has ended: the set is returned
ChunkReturn ==
  /\ kpc = "loop"
  /\ chunkIndex >= Len(uniqueSlugs)
  /\ kpc' = "done"
  /\ UNCHANGED <<batchSlugs, uniqueSlugs, chunkIndex, existingSlugs, queries, present>>
  /\ UNCHANGED <<uvars, ivars, nvars, rvars, cvars>>

----------------------------------------------------------------------------
(* Initial states and specifications *)

\* no request has reached the route
RouteIdle == expectedToken = NoToken /\ token = NoToken /\ status = 0

\* no concurrent request is being handled
RaceIdle == runs = [r \in Requests |-> NoRun]

\* no existence lookup is under way
ChunksIdle ==
  /\ kpc = "idle" /\ batchSlugs = <<>> /\ uniqueSlugs = <<>> /\ chunkIndex = 0
  /\ existingSlugs = {} /\ queries = <<>> /\ present = {}

\* state of the upsert engines and of the image script before the first run
InitBaseWith(tables) ==
  /\ pc = "idle" /\ ti = 1 /\ sets = <<>> /\ idx = 0 /\ inserted = 0 /\ updated = 0
  /\ reports = <<>> /\ stmts = <<>>
  /\ store = tables
  /\ mem = <<>>
  /\ now = 0
  /\ budget = MaxRows
  /\ output = "none" /\ exitCode = 0 /\ failedAt = "none"
  /\ calls = {} /\ wlog = <<>>
  /\ prev = NoPrev
  /\ ipc = "idle" /\ config = BaseConfig /\ sources = <<>> /\ si = 1
  /\ imageUrls = <<>> /\ ii = 1 /\ downloadCache = <<>> /\ uploadedKeys = {}
  /\ results = <<>> /\ bucket = <<>> /\ downloads = <<>> /\ puts = <<>>
  /\ refs = MaxRefs /\ ifailedAt = "none" /\ ierror = "" /\ fetches = <<>> /\ queue = <<>>

InitBase == InitBaseWith([t \in Tables |-> <<>>])

\* state shared by the models before the first run
InitRun == InitBase /\ RouteIdle /\ RaceIdle /\ ChunksIdle

\* the normaliser has no response to work on
InitNormalizer ==
  /\ npc = "idle" /\ folder = "audio-projects"
  /\ rawProjects = <<>> /\ normalizedProjects = <<>> /\ imageMappings = <<>>

Next == Start \/ Fetch \/ UpsertRow \/ FinishSet \/ Prepare \/ ExecuteSqlFile

\* one collection (audio_projects) fed by the remote, any engine
Init == engine \in Engines /\ env = "single" /\ InitRun /\ InitNormalizer

Spec == Init /\ [][Next]_vars

\* all five content types fed by the remote, the multi-type engines
InitMulti == engine \in {"all", "bulk"} /\ env = "multi" /\ InitRun /\ InitNormalizer

SpecMulti == InitMulti /\ [][Next]_vars

\* the content normaliser on its own, applied to one remote response
InitNormalize ==
  /\ engine = "all" /\ env = "single" /\ InitRun
  /\ npc = "raw" /\ folder = "audio-projects"
  /\ ImageResponse(<<>>, MaxLoad) \/ rawProjects \in TitleResponses
  /\ normalizedProjects = <<>> /\ imageMappings = <<>>

NextNormalize == Normalize

SpecNormalize == InitNormalize /\ [][NextNormalize]_vars

\* the content normaliser applied to the one-record responses that use the
\* legacy field names, for each content type
InitAliases ==
  /\ engine = "all" /\ env = "single" /\ InitRun
  /\ npc = "raw"
  /\ folder \in {CONTENT_CONFIGS[i].type : i \in DOMAIN CONTENT_CONFIGS}
  /\ \E p \in AliasRecords(folder) : rawProjects = <<p>>
  /\ normalizedProjects = <<>> /\ imageMappings = <<>>

SpecAliases == InitAliases /\ [][NextNormalize]_vars

\* the migration route in front of migrateAudioProjects, with and without a
\* configured token
InitRoute ==
  /\ engine = "poc" /\ env = "single" /\ InitBase /\ InitNormalizer
  /\ expectedToken \in {NoToken, "secret"} /\ token = NoToken /\ status = 0
  /\ RaceIdle /\ ChunksIdle

NextRoute == Post \/ Fetch \/ UpsertRow \/ FinishSet

SpecRoute == InitRoute /\ [][NextRoute]_vars

\* two requests to the route handled at the same time, on an empty table or
\* on one that an earlier run has filled
InitRace ==
  /\ engine = "poc" /\ env = "single" /\ InitNormalizer
  /\ \E first \in {<<>>, InsertRow(<<>>, Project(AudioConfig, "a", 2), AllColumns, 0)} :
       InitBaseWith([t \in Tables |-> IF t = "audio_projects" THEN first ELSE <<>>])
  /\ RouteIdle /\ RaceIdle /\ ChunksIdle

NextRace == \E r \in Requests : RaceFetch(r) \/ RaceSelect(r) \/ RaceWrite(r)

SpecRace == InitRace /\ [][NextRace]_vars

\* one call of fetchExistingSlugs
InitChunks ==
  /\ engine = "bulk" /\ env = "single" /\ InitBase /\ InitNormalizer
  /\ RouteIdle /\ RaceIdle
  /\ kpc = "start"
  /\ \E n \in BatchLengths : batchSlugs \in BatchSlugLists(n)
  /\ present \in TableContents
  /\ uniqueSlugs = <<>> /\ chunkIndex = 0 /\ existingSlugs = {} /\ queries = <<>>

NextChunks == ChunkStart \/ QueryChunk \/ ChunkReturn

SpecChunks == InitChunks /\ [][NextChunks]_vars

\* the image migration script on its own
NextImages == ImgStart \/ ImgFetch \/ ImgProcess

InitImages == engine = "all" /\ env = "single" /\ InitRun /\ InitNormalizer

SpecImages == InitImages /\ [][NextImages]_vars

----------------------------------------------------------------------------
(* Properties of the Upsert Engine *)

AudioTable == store["audio_projects"]
RunInserted == Sum(reports, "inserted")
RunUpdated == Sum(reports, "updated")
ContentColumns == {"status", "type", "title", "featuredImage", "featuredImages", "extra"}

StoredRow(tbl, s) == tbl[SelectBySlug(tbl, s)[1]]

\* C1: idempotence of upsert. Starting from a collection that holds none of
\* the batch's slugs, two runs with the same N rows report inserted = N,
\* updated = 0 and then inserted = 0, updated = N, and the stored rows after
\* the second run are identical to the stored rows after the first run.
C1_IdempotentUpsert ==
  (pc = "done" /\ prev.rep /\ prev.last.fresh) =>
     /\ prev.last.ins = Len(AudioRows) /\ prev.last.upd = 0
     /\ RunInserted = 0 /\ RunUpdated = Len(AudioRows)
     /\ AudioTable = prev.after

\* C2: de-duplication. Every run handles each slug of a batch exactly once,
\* so inserted + updated is the number of distinct slugs of the batch.
C2_Dedup ==
  pc = "done" =>
     /\ \A k \in DOMAIN reports :
          reports[k].inserted + reports[k].updated = Cardinality(SlugsOf(sets[k].rows))
     /\ Len(wlog) = Cardinality(SlugsOf(AudioRows))

\* C3: later duplicates of a slug are discarded before persistence: after the
\* run the stored row carries the field values of the first occurrence.
C3_FirstOccurrenceStored ==
  (pc = "done" /\ output = "summary") =>
     \A i \in FirstOccurrences(AudioRows) :
        /\ SelectBySlug(AudioTable, AudioRows[i].slug) # <<>>
        /\ \A c \in ContentColumns :
             StoredRow(AudioTable, AudioRows[i].slug)[c] = ColumnValue(c, AudioRows[i])

RunSlugs(t) == UNION {SlugsOf(sets[k].rows) : k \in {j \in DOMAIN sets : sets[j].tableName = t}}

\* C4: the pipeline is additive, never destructive: no step deletes a row, a
\* stored row whose slug is not in the run's batch is unchanged, and a row
\* whose slug is in the batch keeps its id, its slug and its created value.
C4_Additive ==
  [][\A t \in Tables : \A i \in DOMAIN store[t] :
        /\ i \in DOMAIN store'[t]
        /\ store'[t][i].id = store[t][i].id
        /\ store'[t][i].slug = store[t][i].slug
        /\ store'[t][i].created = store[t][i].created
        /\ (store[t][i].slug \notin RunSlugs(t) => store'[t][i] = store[t][i])]_vars

\* a second run has updated one stored row in place and left another one,
\* absent from its batch, in the collection
C4_Witness ==
  /\ pc = "done" /\ now = 2 /\ Len(AudioTable) = 2
  /\ \E i, j \in DOMAIN AudioTable :
       /\ AudioTable[i].slug \notin SlugsOf(AudioRows)
       /\ AudioTable[j].slug \in SlugsOf(AudioRows)
       /\ AudioTable[j].modified.fmt = "sql"

\* C5: an upsert of a row whose slug exists updates all mutable fields by
\* identity: the stored status, type, title, featuredImage, featuredImages,
\* modified and extra columns equal the input row's values.
C5_UpdateByIdentity ==
  (pc = "rows" /\ idx > 0 /\ wlog # <<>> /\ wlog[Len(wlog)].op = "update") =>
     \A c \in MutableColumns \cup {"extra"} :
        StoredRow(Table, CurrentSet.rows[idx].slug)[c] = ColumnValue(c, CurrentSet.rows[idx])

\* the rows 1..n of the current set are in tbl, each slug with the content of
\* its last occurrence among them
Committed(tbl, rows, n) ==
  \A i \in 1..n :
     /\ SelectBySlug(tbl, rows[i].slug) # <<>>
     /\ (\A j \in (i + 1)..n : rows[j].slug # rows[i].slug) =>
          \A c \in ContentColumns :
             StoredRow(tbl, rows[i].slug)[c] = ColumnValue(c, rows[i])

RowFailure == pc = "failed" /\ failedAt = "row"

\* C6: the sequential engine has no cross-row transaction: when the store
\* operation for the k-th row fails, the writes for rows 1..k-1 remain
\* committed in the store, no later row is attempted, the run has failed.
C6_PriorRowsCommitted ==
  RowFailure =>
     /\ Committed(store[Config.tableName], CurrentSet.rows, idx)
     /\ Len(wlog) <= idx + Sum(sets, "sourceCount") - Len(CurrentSet.rows)

\* C6 as amended: it holds of the engines that write to the store handle row
\* by row; the local-file script applies rows 1..k-1 to its in-memory
\* database only, and the database file receives none of the run's writes.
C6_Amended ==
  /\ [](RowFailure =>
          /\ idx < Len(CurrentSet.rows)
          /\ output = "error"
          /\ Len(wlog) = idx + Sum(sets, "sourceCount") - Len(CurrentSet.rows)
          /\ Committed(Table, CurrentSet.rows, idx)
          /\ engine = "local" =>
               \A i \in DOMAIN wlog :
                  wlog[i].op = "insert" => wlog[i].slug \notin SlugsOf(AudioTable))
  /\ [][pc = "failed" => store' = store]_vars

\* the second row of a batch failed after the first one updated a stored row
C6_Witness ==
  /\ RowFailure /\ engine = "all" /\ idx = 1
  /\ wlog[Len(wlog)].op = "update"

TypeOrder == <<"pages", "building-blocks", "animations", "creative-coding", "audio-projects">>
TypeRank(type) == CHOOSE k \in DOMAIN TypeOrder : TypeOrder[k] = type

FetchFailure == pc = "failed" /\ failedAt = "fetch"

\* C7: a fetch failure (non-success status or non-list payload) for any
\* content type is not retried and aborts the whole multi-type run; when the
\* run fails this way no row of any content type has been persisted by it.
C7_NothingPersisted ==
  FetchFailure => wlog = <<>> /\ calls = {}

\* C7 as amended: the run is aborted at the failing type and returns no
\* summary; the bulk script has persisted nothing, migrateAllContent has
\* persisted the rows of the types before the failing one and nothing else.
C7_Amended ==
  FetchFailure =>
     /\ output = "error"
     /\ Len(sets) = ti - 1
     /\ engine \in BulkEngines => (wlog = <<>> /\ calls = {})
     /\ \A i \in DOMAIN wlog : TypeRank(wlog[i].type) < ti

\* migrateAllContent failed on a later fetch after persisting an earlier type
C7_Witness ==
  FetchFailure /\ engine = "all" /\ ti = 3 /\ wlog # <<>>

Before(x, y) ==
  \/ TypeRank(x.type) < TypeRank(y.type)
  \/ x.type = y.type /\ x.pos < y.pos

\* C8: rows of one content type are upserted (or their statements emitted) in
\* the order of the remote fetch, content types are processed in the order
\* pages, building-blocks, animations, creative-coding, audio-projects, and
\* no row of a later type is written before every row of an earlier type.
C8_Ordering ==
  /\ \A k \in DOMAIN sets : sets[k].type = TypeOrder[k]
  /\ \A i, j \in DOMAIN wlog : i < j => Before(wlog[i], wlog[j])
  /\ \A i, j \in DOMAIN stmts : i < j => Before(stmts[i], stmts[j])

\* three rows written: two of one type in fetch order, then one of a later type
C8_Witness ==
  /\ Len(wlog) = 3
  /\ wlog[1].type = wlog[2].type /\ wlog[1].pos = 1 /\ wlog[2].pos = 2
  /\ wlog[3].type # wlog[1].type

EmptyRunDone ==
  /\ pc = "done"
  /\ Len(sets) = Len(Configs)
  /\ \A k \in DOMAIN sets : sets[k].rows = <<>>

ZeroCounts ==
  \A k \in DOMAIN reports :
     reports[k].sourceCount = 0 /\ reports[k].inserted = 0 /\ reports[k].updated = 0

\* C9: when every endpoint returns an empty list the run generates zero SQL
\* statements, makes no storage call, reports a summary whose counts are all
\* zero, and exits with code 0.
C9_EmptyInput ==
  EmptyRunDone =>
     /\ stmts = <<>> /\ calls = {} /\ wlog = <<>>
     /\ output = "summary" /\ ZeroCounts
     /\ exitCode = 0

\* C9 as amended: as above, except that the bulk script prints its
\* nothing-to-migrate notice in place of the summary; the reports it built
\* all carry zero counts.
C9_Amended ==
  EmptyRunDone =>
     /\ stmts = <<>> /\ calls = {} /\ wlog = <<>>
     /\ ZeroCounts
     /\ output = (IF engine \in BulkEngines THEN "nothing" ELSE "summary")
     /\ exitCode = 0

\* the bulk script has fetched five empty sets and finished
C9_Witness ==
  EmptyRunDone /\ engine = "bulk" /\ Len(reports) = Len(CONTENT_CONFIGS)

----------------------------------------------------------------------------
(* Properties of the image migration *)

\* C10: within one image-migration run every distinct image URL is handed to
\* downloadImage at most once, also when several records or several sources
\* reference it; later references are served from the run's cache.
C10_DownloadOnce ==
  \A i, j \in DOMAIN downloads : i # j => downloads[i] # downloads[j]

\* two sources referenced the same URL and both got their mapping record
C10_Witness ==
  \E i, j \in DOMAIN results :
     /\ results[i].sourceUrl = results[j].sourceUrl
     /\ results[i].source # results[j].source
     /\ Len(downloads) < Len(results)

\* C11: within one image-migration run each target key <prefix>/<filename> is
\* put to object storage at most once; an image whose key was already uploaded
\* earlier in the run is not uploaded again, also when two different source
\* URLs resolve to the same key.
C11_KeyUploadedOnce ==
  \A i, j \in DOMAIN puts : i # j => puts[i] # puts[j]

\* two different source URLs resolved to one key; both were processed and the
\* second upload was skipped
C11_Witness ==
  \E i, j \in DOMAIN results :
     /\ results[i].sourceUrl # results[j].sourceUrl
     /\ results[i].targetKey = results[j].targetKey
     /\ Len(puts) < Len(results)

ImageFailures == {"filename", "download", "upload"}

\* the URL whose upload created the object stored under a key
FirstUploader(key) ==
  results[CHOOSE k \in DOMAIN results :
            /\ results[k].targetKey = key
            /\ \A j \in DOMAIN results : results[j].targetKey = key => k <= j].sourceUrl

\* C12: a failure while processing one image (no file name derivable from its
\* URL, non-success download, failed upload) is fatal: the run is over, no
\* later image is downloaded or uploaded, nothing is rolled back, and the
\* bucket holds exactly the objects uploaded before the failing image.
C12_ImageFailureFatal ==
  /\ [](ifailedAt \in ImageFailures =>
         /\ ipc = "failed"
         /\ Len(results) < Len(queue)
         /\ Len(downloads) <= Len(results) + 1
         /\ Len(puts) <= Len(results) + 1
         /\ \A k \in DOMAIN downloads :
               \E j \in 1..(Len(results) + 1) : queue[j].url = downloads[k]
         /\ DOMAIN bucket = {results[k].targetKey : k \in DOMAIN results}
         /\ \A key \in DOMAIN bucket : bucket[key] = Body(FirstUploader(key)))
  /\ [][ifailedAt # "none" =>
          UNCHANGED <<bucket, downloads, puts, results, fetches>>]_vars

\* the run died on an image without a file name after it had uploaded others
C12_Witness ==
  /\ ipc = "failed" /\ ifailedAt = "filename"
  /\ bucket # <<>>

StripTrailingSlash(str) ==
  IF str # <<>> /\ str[Len(str)] = "/" THEN SubSeq(str, 1, Len(str) - 1) ELSE str

\* the mapping record the claim describes for one queued image
MappingRecord(q) ==
  LET segs == q.url.segs
      key == q.source.targetPrefix \o <<"/", PercentDecode(segs[Len(segs)])>>
  IN [source |-> q.source.key, sourceUrl |-> q.url, targetKey |-> key,
      r2Url |-> IF config.publicBase = <<>> THEN <<>>
                ELSE StripTrailingSlash(config.publicBase) \o <<"/">> \o key]

\* C13: a successful image-migration run emits exactly one mapping record per
\* processed image, one for each (source, distinct image URL of that source)
\* pair in processing order, tagged with the source's key, with targetKey
\* <prefix>/<filename> and the public base joined with the key (null without
\* a public base), also when the upload was skipped.
C13_MappingRecords ==
  ipc = "done" =>
    /\ Len(results) = Len(queue)
    /\ \A k \in DOMAIN results : results[k] = MappingRecord(queue[k])

\* a successful run with a public base that skipped an upload
C13_Witness ==
  /\ ipc = "done"
  /\ config.publicBase # <<>>
  /\ Len(puts) < Len(results)

Resolved == ipc \in {"source", "images", "done"} \/ ifailedAt \in ImageFailures \cup {"fetch"}

FirstNonEmptyOf(file, environment, default) ==
  IF file # <<>> THEN file ELSE IF environment # <<>> THEN environment ELSE default

StripSlashes(str) ==
  LET a == IF str # <<>> /\ Head(str) = "/" THEN Tail(str) ELSE str
  IN StripTrailingSlash(a)

\* C14: with a non-empty explicit source list in the file config the resolved
\* sources are exactly that list, every override and default being ignored;
\* otherwise each of the five families takes as endpoint and as target prefix
\* the first non-empty value among file config, environment and hard default.
C14_SourcePriority ==
  Resolved =>
    IF config.sources # <<>>
    THEN sources = config.sources
    ELSE /\ Len(sources) = Len(SOURCE_DEFINITIONS)
         /\ \A i \in DOMAIN sources :
              LET def == SOURCE_DEFINITIONS[i]
              IN sources[i] =
                   [key |-> def.key,
                    endpoint |-> FirstNonEmptyOf(config.fileEndpoint[def.key],
                                   config.envEndpoint[def.key], <<def.endpointDefault>>)[1],
                    targetPrefix |-> FirstNonEmptyOf(config.filePrefix[def.key],
                                       config.envPrefix[def.key], def.prefixDefault)]

\* the target prefix the priority rule selects for each source
ChosenPrefixes ==
  IF config.sources # <<>>
  THEN [i \in DOMAIN config.sources |-> config.sources[i].targetPrefix]
  ELSE [i \in DOMAIN SOURCE_DEFINITIONS |->
          FirstNonEmptyOf(config.filePrefix[SOURCE_DEFINITIONS[i].key],
                          config.envPrefix[SOURCE_DEFINITIONS[i].key],
                          SOURCE_DEFINITIONS[i].prefixDefault)]

\* C14 as the script implements it: the selected target prefix loses one
\* leading and one trailing slash, and a run in which a prefix is then empty
\* fails before its first fetch.
C14_Amended ==
  /\ Resolved =>
       /\ Len(sources) = Len(ChosenPrefixes)
       /\ \A i \in DOMAIN sources :
            /\ sources[i].targetPrefix = StripSlashes(ChosenPrefixes[i])
            /\ sources[i].targetPrefix # <<>>
            /\ IF config.sources # <<>>
               THEN /\ sources[i].key = config.sources[i].key
                    /\ sources[i].endpoint = config.sources[i].endpoint
               ELSE LET def == SOURCE_DEFINITIONS[i]
                    IN /\ sources[i].key = def.key
                       /\ sources[i].endpoint =
                            FirstNonEmptyOf(config.fileEndpoint[def.key],
                              config.envEndpoint[def.key], <<def.endpointDefault>>)[1]
  /\ ifailedAt = "prefix" =>
       /\ ipc = "failed" /\ fetches = <<>>
       /\ \E i \in DOMAIN ChosenPrefixes : StripSlashes(ChosenPrefixes[i]) = <<>>
  /\ (ipc # "idle" /\ ifailedAt \notin {"config", "prefix"}) => Resolved

\* a run resolved its sources from per-field values where file and environment
\* disagree
C14_Witness ==
  /\ Resolved
  /\ config.sources = <<>>
  /\ config.filePrefix["pages"] # <<>> /\ config.envPrefix["pages"] # <<>>
  /\ config.filePrefix["pages"] # config.envPrefix["pages"]

MissingCredentials == AllCredentials \ (config.fileCreds \cup config.envCreds)

\* C15: when a required credential is missing or empty in both the file config
\* and the environment, the run fails with an error naming a missing field
\* before any content fetch, image download or upload is issued.
C15_ConfigFailureFirst ==
  (ipc # "idle" /\ MissingCredentials # {}) =>
    /\ ipc = "failed" /\ ifailedAt = "config"
    /\ ierror \in MissingCredentials
    /\ fetches = <<>> /\ downloads = <<>> /\ puts = <<>>
    /\ bucket = <<>> /\ results = <<>>

\* a run was started without R2_ACCOUNT_ID and failed naming it
C15_Witness ==
  /\ ipc = "failed" /\ ifailedAt = "config"
  /\ ierror = "R2_ACCOUNT_ID"

----------------------------------------------------------------------------
(* Properties of the content normaliser *)

Normalized == npc = "normalized"

TargetFolder == R2_BASE_URL \o <<"/", folder, "/">>

\* every URL the normaliser returned for the response: featured images and
\* gallery entries
RewrittenUrls ==
  {normalizedProjects[i].featuredImage : i \in DOMAIN normalizedProjects}
  \cup UNION { {normalizedProjects[i].featuredImages.items[k] :
                  k \in DOMAIN normalizedProjects[i].featuredImages.items} :
               i \in DOMAIN normalizedProjects }

\* C16: a URL already under <base>/<folder>/ is returned unchanged, and
\* rewriting a non-null result again returns that same result.
C16_RewriteIdempotent ==
  Normalized =>
    /\ \A i \in DOMAIN rawProjects :
         StartsWith(rawProjects[i].featuredImage, TargetFolder) =>
           normalizedProjects[i].featuredImage = rawProjects[i].featuredImage
    /\ \A r \in RewrittenUrls : r # NullValue => convertImageUrl(r, folder) = r
    /\ \A i \in DOMAIN normalizedProjects :
         convertImageArray(normalizedProjects[i].featuredImages, folder)
           = normalizedProjects[i].featuredImages

\* one record kept its URL with a nested path under the target folder while
\* another record's URL was rewritten
C16_Witness ==
  /\ Normalized
  /\ \E i, j \in DOMAIN rawProjects :
       /\ StartsWith(rawProjects[i].featuredImage, TargetFolder \o <<"sub">>)
       /\ normalizedProjects[j].featuredImage # NullValue
       /\ normalizedProjects[j].featuredImage # rawProjects[j].featuredImage

\* no file name can be extracted: malformed URL or trailing slash
NoFilename(value) == value # <<>> /\ (Head(value) \notin Origins \/ value[Len(value)] = "/")

\* the non-null entries of a sequence of rewrites, in order
RECURSIVE NonNull(_)
NonNull(seq) ==
  IF seq = <<>> THEN <<>>
  ELSE (IF Head(seq) \in {NullValue, <<>>} THEN <<>> ELSE <<Head(seq)>>) \o NonNull(Tail(seq))

\* the array form: element by element, nulls dropped, never an empty array
ArrayFormHolds(i) ==
  LET given == rawProjects[i].featuredImages.items
      kept == NonNull([k \in DOMAIN given |-> convertImageUrl(given[k], folder)])
      out == normalizedProjects[i].featuredImages
  IN /\ out.isNull <=> kept = <<>>
     /\ out.items = kept

\* C17: the URL rewriter returns null for null or empty input and for any URL
\* from which no file name can be extracted (malformed URL or trailing slash);
\* the array form rewrites each element independently, drops the entries
\* that rewrite to null and returns null instead of an empty array.
C17_RewriteNulls ==
  Normalized =>
    \A i \in DOMAIN rawProjects :
      /\ (Falsy(rawProjects[i].featuredImage) \/ NoFilename(rawProjects[i].featuredImage))
           => normalizedProjects[i].featuredImage = NullValue
      /\ ArrayFormHolds(i)

\* C17 as the rewriter implements it: a URL already under <base>/<folder>/ is
\* returned unchanged even when it ends with a slash; every other input
\* without a file name gives null.
C17_Amended ==
  Normalized =>
    \A i \in DOMAIN rawProjects :
      /\ (Falsy(rawProjects[i].featuredImage)
          \/ (NoFilename(rawProjects[i].featuredImage)
              /\ ~StartsWith(rawProjects[i].featuredImage, TargetFolder)))
           => normalizedProjects[i].featuredImage = NullValue
      /\ (NoFilename(rawProjects[i].featuredImage)
          /\ StartsWith(rawProjects[i].featuredImage, TargetFolder))
           => normalizedProjects[i].featuredImage = rawProjects[i].featuredImage
      /\ ArrayFormHolds(i)

\* a malformed featured image became null and a gallery whose entries all
\* fail to rewrite became null
C17_Witness ==
  /\ Normalized
  /\ \E i \in DOMAIN rawProjects :
       /\ rawProjects[i].featuredImage = <<"media", "/", "x.png">>
       /\ normalizedProjects[i].featuredImage = NullValue
       /\ Len(rawProjects[i].featuredImages.items) = 2
       /\ normalizedProjects[i].featuredImages = NullArray

\* C18: every non-null result of the URL rewriter is exactly
\* <targetBase>/<folder>/<filename>, the file name being the final path
\* segment of the input URL, percent-decoded.
C18_RewriteShape ==
  Normalized =>
    \A i \in DOMAIN rawProjects :
      normalizedProjects[i].featuredImage # NullValue =>
        normalizedProjects[i].featuredImage =
          TargetFolder \o <<PercentDecode(LastSegment(Pathname(rawProjects[i].featuredImage)))>>

\* positions of one record's gallery for which a mapping is due
DuePositions(i) ==
  LET src == extractFeaturedImages(rawProjects[i])
      tgt == normalizedProjects[i].featuredImages
  IN IF src.isNull \/ tgt.isNull THEN {}
     ELSE {k \in 1..Min(Len(src.items), Len(tgt.items)) :
             src.items[k] \notin {NullValue, <<>>} /\ tgt.items[k] \notin {NullValue, <<>>}}

\* mappings due for record i
DueMappings(i) ==
  (IF extractFeaturedImage(rawProjects[i]) # NullValue
      /\ normalizedProjects[i].featuredImage # NullValue THEN 1 ELSE 0)
  + Cardinality(DuePositions(i))

RECURSIVE DueUpTo(_)
DueUpTo(n) == IF n = 0 THEN 0 ELSE DueUpTo(n - 1) + DueMappings(n)

\* a record with a rewritten featured image and a gallery of three of which
\* two rewrite
OnePlusThree(i) ==
  /\ normalizedProjects[i].featuredImage # NullValue
  /\ ~extractFeaturedImages(rawProjects[i]).isNull
  /\ Len(extractFeaturedImages(rawProjects[i]).items) = 3
  /\ Len(normalizedProjects[i].featuredImages.items) = 2

\* C19: the collector emits, for each index present in both lists, one mapping
\* for featuredImage when source and target are non-null and one mapping for
\* each gallery position below min(len(source), len(target)) where both
\* entries are non-null; a record with one rewritten featuredImage and three
\* featuredImages of which two rewrite yields three mappings; an index
\* without counterpart is skipped.
C19_MappingCardinality ==
  Normalized =>
    /\ Len(imageMappings) = DueUpTo(Len(normalizedProjects))
    /\ (Len(rawProjects) = 1 /\ OnePlusThree(1)) => Len(imageMappings) = 3
    /\ rawProjects # <<>> =>
         Len(createImageMappings(SubSeq(rawProjects, 1, Len(rawProjects) - 1),
                                 normalizedProjects))
           = DueUpTo(Len(rawProjects) - 1)

\* the record of the example was normalised
C19_Witness ==
  /\ Normalized
  /\ Len(rawProjects) = 1 /\ OnePlusThree(1)
  /\ Len(imageMappings) = 3

\* the UTF-16 form of a code point
CodePoint(n) ==
  IF n < 65536 THEN <<n>>
  ELSE <<55296 + ((n - 65536) \div 1024), 56320 + ((n - 65536) % 1024)>>

NamedEntities ==
  { [name |-> <<38, 97, 109, 112, 59>>, char |-> 38],
    [name |-> <<38, 108, 116, 59>>, char |-> 60],
    [name |-> <<38, 103, 116, 59>>, char |-> 62],
    [name |-> <<38, 113, 117, 111, 116, 59>>, char |-> 34],
    [name |-> <<38, 97, 112, 111, 115, 59>>, char |-> 39] }

\* the text with each numeric character reference and each of the five named
\* entities replaced by the character it denotes
RECURSIVE Decoded(_)
Decoded(str) ==
  IF str = <<>> THEN <<>>
  ELSE LET dec == SubSeq(str, 3, Len(str))
           nd == RunLength(dec, DecimalDigits)
           hex == SubSeq(str, 4, Len(str))
           nh == RunLength(hex, HexDigits)
           named == {e \in NamedEntities : StartsWith(str, e.name)}
       IN IF StartsWith(str, <<38, 35>>) /\ nd > 0 /\ Len(dec) > nd /\ dec[nd + 1] = 59
          THEN CodePoint(ParseInt(SubSeq(dec, 1, nd), 10))
               \o Decoded(SubSeq(dec, nd + 2, Len(dec)))
          ELSE IF StartsWith(str, <<38, 35, 120>>) /\ nh > 0 /\ Len(hex) > nh /\ hex[nh + 1] = 59
          THEN CodePoint(ParseInt(SubSeq(hex, 1, nh), 16))
               \o Decoded(SubSeq(hex, nh + 2, Len(hex)))
          ELSE IF named # {}
          THEN LET e == CHOOSE x \in named : TRUE
               IN <<e.char>> \o Decoded(SubSeq(str, Len(e.name) + 1, Len(str)))
          ELSE <<Head(str)>> \o Decoded(Tail(str))

\* C20: title normalisation strips every HTML tag first, then decodes decimal
\* and hexadecimal numeric character references and the five named entities,
\* then trims whitespace; text that becomes tag-shaped only by decoding is
\* kept as text.
C20_TitleNormalised ==
  Normalized =>
    \A i \in DOMAIN rawProjects :
      normalizedProjects[i].title = Trim(Decoded(stripHtml(rawProjects[i].title)))

----------------------------------------------------------------------------
(* Further properties of the pipelines *)

UniqueSlugs(tbl) == \A i, j \in DOMAIN tbl : i # j => tbl[i].slug # tbl[j].slug

\* C23: after any sequence of upsert runs, with any batches (repeated batches
\* and batches with duplicate slugs included), the target collection holds at
\* most one row per slug.
C23_OneRowPerSlug ==
  /\ \A t \in Tables : UniqueSlugs(store[t])
  /\ UniqueSlugs(mem)

\* a second sequential run handled a batch naming one stored slug twice
C23_Witness ==
  /\ engine \in SequentialEngines
  /\ pc = "done" /\ now = 2
  /\ Len(wlog) = 2 /\ wlog[1].slug = wlog[2].slug /\ wlog[1].op = "update"
  /\ Len(AudioTable) = 1

\* C26: in the bulk CLI no write reaches the row store before all five
\* content types are fetched and every existence check has succeeded; the
\* writes are one batch at the end, and a failed fetch or existence check
\* leaves the store unmodified by the run.
C26_BulkWritesLast ==
  /\ []((engine = "bulk" /\ failedAt \in {"wrangler", "fetch", "query"}) =>
          (wlog = <<>> /\ "execFile" \notin calls))
  /\ [][(engine = "bulk" /\ (store' # store \/ (wlog' # wlog /\ wlog' # <<>>))) =>
          /\ pc = "exec"
          /\ Len(sets) = Len(CONTENT_CONFIGS)
          /\ Len(reports) = Len(CONTENT_CONFIGS)
          /\ wlog = <<>> /\ "execFile" \notin calls]_vars

\* an existence check failed after an earlier content type had passed its own
\* and produced statements
C26_Witness ==
  /\ engine = "bulk" /\ failedAt = "query"
  /\ stmts # <<>>

\* C28: after a successful image-migration run, for every mapping record the
\* object stored under the record's targetKey holds the bytes downloaded from
\* the record's sourceUrl.
C28_MappedBytes ==
  ipc = "done" =>
    \A k \in DOMAIN results :
      /\ results[k].targetKey \in DOMAIN bucket
      /\ bucket[results[k].targetKey] = Body(results[k].sourceUrl)

\* C29: every image mapping pairs a source URL with its own rewrite, also when
\* entries of the record's featuredImages list were dropped.
C29_MappingPairsOwnRewrite ==
  Normalized =>
    \A k \in DOMAIN imageMappings :
      imageMappings[k].target = convertImageUrl(imageMappings[k].source, folder)

\* batches of one content type the remote can return
BatchesOf(cfg) == SeqsUpTo({Project(cfg, x, v) : x \in Slugs, v \in Vers}, MaxBatch)

DistinctSlugs(rows) == \A i, j \in DOMAIN rows : i # j => rows[i].slug # rows[j].slug

SameOutcome(tbl, rows, cfg, t) ==
  upsertContent(tbl, rows, cfg, Len(rows), t) = BulkUpsert(tbl, rows, cfg, t)

\* C25: for the same initial collection and the same normalized batch of one
\* content type, the bulk path reports the same inserted and updated counts
\* and leaves the same stored rows as the row-by-row path.
C25_BulkMatchesSequential ==
  pc \in {"idle", "done", "failed"} =>
    \A rows \in BatchesOf(AudioConfig) :
      SameOutcome(store[AudioConfig.tableName], rows, AudioConfig, now + 1)

\* the two paths agree on the batches whose slugs are pairwise distinct
C25_DistinctBatches ==
  pc \in {"idle", "done", "failed"} =>
    \A rows \in BatchesOf(AudioConfig) :
      DistinctSlugs(rows) =>
        SameOutcome(store[AudioConfig.tableName], rows, AudioConfig, now + 1)

\* first value of a priority list that is not empty: null, "" and, for the
\* type-specific texts, white space only count as empty
RECURSIVE FirstFilled(_)
FirstFilled(values) ==
  IF values = <<>> THEN NullValue
  ELSE IF extractString(Head(values)) # NullValue THEN Head(values)
  ELSE FirstFilled(Tail(values))

RECURSIVE FirstFilledArray(_)
FirstFilledArray(values) ==
  IF values = <<>> THEN NullArray
  ELSE IF ~Head(values).isNull /\ Head(values).items # <<>> THEN Head(values)
  ELSE FirstFilledArray(Tail(values))

\* what the alias fallback of the given field yields for a raw record
FallbackImage(raw) ==
  FirstFilled(<<raw.featuredImage, raw.featured_image, raw.featured_media_url>>)

FallbackImages(raw) ==
  FirstFilledArray(<<raw.featuredImages, raw.featured_images, raw.gallery_images>>)

\* C30: each image field and each type-specific extra field of a normalized
\* row takes the first non-empty value among its canonical field name and its
\* legacy aliases, in priority order; an empty or missing canonical value
\* never hides a non-empty alias value.
C30_AliasFallback ==
  Normalized =>
    \A i \in DOMAIN rawProjects :
      LET raw == rawProjects[i]
          row == normalizedProjects[i]
      IN /\ row.featuredImage = convertImageUrl(FallbackImage(raw), folder)
         /\ row.featuredImages = convertImageArray(FallbackImages(raw), folder)
         /\ folder = "pages" =>
              row.reactComponent = FirstFilled(<<raw.reactComponent, raw.react_component>>)
         /\ folder = "animations" =>
              row.animationLink =
                FirstFilled(<<raw.animationLink, raw.animation_link, raw.animationURL>>)

----------------------------------------------------------------------------
(* The image script applied to the records the normaliser works on *)

\* new URL(url).pathname.split("/"): the segments after the leading slash; a
\* path ending with a slash ends with an empty segment
Segments(path) ==
  SelectSeq(path, LAMBDA x : x # "/")
  \o (IF path[Len(path)] = "/" THEN <<"">> ELSE <<>>)

\* the URL as the image script parses it
ScriptUrl(value) == [host |-> Head(value), segs |-> Segments(Pathname(value))]

\* key under which the image script puts the image at u for the source of
\* the given content type, with the default prefix; none when the URL does
\* not parse or has no file name (the script throws)
UploadKey(type, u) ==
  LET def == CHOOSE x \in {SOURCE_DEFINITIONS[k] : k \in DOMAIN SOURCE_DEFINITIONS} :
               x.key = type
  IN IF ~ParsesAsUrl(u) \/ extractFilename(ScriptUrl(u)) = "" THEN <<>>
     ELSE TargetKey([targetPrefix |-> def.prefixDefault], extractFilename(ScriptUrl(u)))

\* references collectImageUrls reads from one record: the canonical fields
ScriptReferences(raw) ==
  (IF Falsy(raw.featuredImage) THEN <<>> ELSE <<raw.featuredImage>>)
  \o (IF raw.featuredImages.isNull THEN <<>>
      ELSE SelectSeq(raw.featuredImages.items, LAMBDA u : ~Falsy(u)))

RECURSIVE ScriptReferencesOf(_)
ScriptReferencesOf(records) ==
  IF records = <<>> THEN <<>>
  ELSE ScriptReferences(Head(records)) \o ScriptReferencesOf(Tail(records))

\* keys put by a run of the script over urls: it stops at the first URL
\* without a key
RECURSIVE KeysPut(_, _)
KeysPut(type, urls) ==
  IF urls = <<>> \/ UploadKey(type, Head(urls)) = <<>> THEN {}
  ELSE {UploadKey(type, Head(urls))} \cup KeysPut(type, Tail(urls))

\* objects in the bucket after the script ran over the response
UploadedFor(type, records) == KeysPut(type, Unique(ScriptReferencesOf(records)))

\* references the normaliser reads from one record
NormaliserReferences(raw) ==
  (IF extractFeaturedImage(raw) = NullValue THEN {} ELSE {extractFeaturedImage(raw)})
  \cup {extractFeaturedImages(raw).items[k] : k \in DOMAIN extractFeaturedImages(raw).items}

\* image links of a normalized row
Links(row) ==
  (IF row.featuredImage = NullValue THEN {} ELSE {row.featuredImage})
  \cup {row.featuredImages.items[k] : k \in DOMAIN row.featuredImages.items}

\* path of a URL of the storage base below that base
ObjectPath(url) == SubSeq(url, 3, Len(url))

\* C21: for every image URL u referenced by a record of content family T, the
\* rewritten URL stored in the row designates the object the image migration
\* uploads for u from source T under default prefixes (its path below the
\* storage base is <prefix of T>/<filename of u>), and every image a migrated
\* row links to has been uploaded.
C21_ReferentialIntegrity ==
  Normalized =>
    \A i \in DOMAIN rawProjects :
      /\ \A u \in NormaliserReferences(rawProjects[i]) :
           convertImageUrl(u, folder) # NullValue =>
             ObjectPath(convertImageUrl(u, folder)) = UploadKey(folder, u)
      /\ \A l \in Links(normalizedProjects[i]) :
           ObjectPath(l) \in UploadedFor(folder, rawProjects)

\* the first half alone, for the references whose file name has no escape
\* and that are not already under the storage base
C21_PlainNames ==
  Normalized =>
    \A i \in DOMAIN rawProjects :
      \A u \in NormaliserReferences(rawProjects[i]) :
        (/\ convertImageUrl(u, folder) # NullValue
         /\ ~StartsWith(u, R2_BASE_URL)
         /\ PercentDecode(LastSegment(Pathname(u))) = LastSegment(Pathname(u))) =>
          ObjectPath(convertImageUrl(u, folder)) = UploadKey(folder, u)

----------------------------------------------------------------------------
(* Properties of the route, of concurrent runs and of the existence lookup *)

\* C22: with a configured migration token, a request whose token header is
\* absent or differs from it is answered with 401 and triggers no remote
\* fetch and no read or write of the store.
C22_TokenGuard ==
  /\ [][(/\ expectedToken # NoToken
         /\ token' # expectedToken
         /\ <<token, status, now>>' # <<token, status, now>>)
          => (status' = 401 /\ ResponseStatus' = 401)]_vars
  /\ [][status' = 401 => UNCHANGED uvars]_vars

\* a request without the header was refused after an earlier request with
\* the right token had migrated a row
C22_Witness ==
  /\ expectedToken = "secret" /\ token = NoToken /\ status = 401
  /\ store["audio_projects"] # <<>>
  /\ pc = "done"

RaceInserts == {r \in Requests : runs[r].pc = "write" /\ runs[r].existing = <<>>}

RaceSlug(r) == runs[r].rows[runs[r].idx + 1].slug

\* rows the table held before the concurrent requests: the record of the
\* earlier run carries another creation time
InitialRaceTable == SelectSeq(RaceTable, LAMBDA row : row.created = Iso(2))

RECURSIVE SumInserted(_)
SumInserted(rs) ==
  IF rs = {} THEN 0
  ELSE LET r == CHOOSE x \in rs : TRUE IN runs[r].inserted + SumInserted(rs \ {r})

\* C24: two runs active at the same time can both have read 'not found' for
\* the same new slug and both proceed to insert it (C24_Witness); nothing in
\* the pipeline orders one run's read after the other's write. What remains
\* then is the unique index on slug: the table keeps one row per slug, every
\* row is counted by the one run that inserted it, and a run that fails on
\* the index had read 'not found' for a slug that is in the table by now.
C24_RaceOutcome ==
  /\ UniqueSlugs(RaceTable)
  /\ Len(RaceTable) = Len(InitialRaceTable) + SumInserted(Requests)
  /\ \A r \in Requests :
       runs[r].failedAt = "unique" =>
         runs[r].existing = <<>> /\ RaceSlug(r) \in SlugsOf(RaceTable)

\* both runs have read 'not found' for the same slug, which is still absent,
\* and are about to insert it
C24_Witness ==
  /\ RaceInserts = Requests
  /\ \A r, q \in Requests : RaceSlug(r) = RaceSlug(q)
  /\ \A r \in Requests : RaceSlug(r) \notin SlugsOf(RaceTable)

\* the race has run its course: one run inserted the slug, the other failed
C24_Loser ==
  \E r, q \in Requests :
    /\ runs[r].failedAt = "unique" /\ runs[q].inserted > 0
    /\ RaceSlug(r) \in {runs[q].rows[k].slug : k \in 1..runs[q].idx}

Range(f) == {f[k] : k \in DOMAIN f}

\* positions of the queries issued so far that name slug x
QueriedAt(x) == {<<q, k>> \in (DOMAIN queries) \X (1..chunkSize) :
                   k \in DOMAIN queries[q] /\ queries[q][k] = x}

\* C27: existing-slug lookups are issued in chunks of at most 100 slugs;
\* every distinct slug of the batch is queried in exactly one chunk, and the
\* returned set is exactly the set of batch slugs that exist in the table.
C27_ChunkedLookup ==
  /\ \A q \in DOMAIN queries : Len(queries[q]) <= chunkSize
  /\ \A x \in Range(batchSlugs) : Cardinality(QueriedAt(x)) <= 1
  /\ kpc = "done" =>
       /\ \A x \in Range(batchSlugs) : Cardinality(QueriedAt(x)) = 1
       /\ existingSlugs = Range(batchSlugs) \cap present

\* a lookup over a list with repeated slugs took more than one chunk and
\* found some of the slugs
C27_Witness ==
  /\ kpc = "done"
  /\ Len(queries) >= 2
  /\ Len(uniqueSlugs) < Len(batchSlugs)
  /\ existingSlugs # {} /\ existingSlugs # Range(batchSlugs)

====
